---------------------------- MODULE Spec2Model ----------------------------
(***************************************************************************)
(* A model of the risk envelope and the execution path of the arbitrage    *)
(* bot: the trading circuit breaker (src/risk/circuit_breaker.py), the     *)
(* order manager (src/execution/order_manager.py), the executor            *)
(* (src/execution/executor.py) and the engine's scan and sync loops       *)
(* (src/bot/engine.py).                                                    *)
(*                                                                         *)
(* The bot is a single-threaded asyncio program.  A coroutine runs without *)
(* interruption between two suspension points, so every action below is    *)
(* the code between two awaits that really suspend (network I/O, sleep).   *)
(* The bodies guarded by the breaker's asyncio.Lock never suspend (the     *)
(* only await inside, of _check_trip_conditions, runs a coroutine without  *)
(* a suspension point), so each breaker method is one atomic step.         *)
(***************************************************************************)
EXTENDS Integers, Sequences, FiniteSets, TLC

\* ------------------------------------------------------------------ bounds
\* The largest total exposure the position ledger reports.
MaxLedger == 2

\* The largest quantity of a level of an order book.
MaxLevelQuantity == 2

\* The largest quantity execute is called with.
MaxRequest == 2

\* The largest quantity of a delta of the stream.
MaxDeltaQuantity == 1

\* The largest number of store mutations the stream has started and the
\* event loop has not run yet.
MaxPending == 2

\* The largest _reconnect_count of the stream client.
MaxReconnects == 3

\* The clock runs from 0 to MaxTime (seconds).
MaxTime == 4
\* The largest number of seconds that can pass between two reads of the
\* clock made inside one call.
MaxDrift == 1
\* |profit_cents| of a recorded loss ranges over 1..MaxLoss.
MaxLoss == 1
\* profit_cents of a recorded win ranges over 0..MaxWin.
MaxWin == 1
\* exposure_cents reported by the ledger ranges over 0..MaxExposure.
MaxExposure == 1
\* Caps on the counters the code lets grow without limit.
MaxDailyLoss == 3
MaxConsecutive == 2
MaxTrips == 2
MaxTradeQuantity == 3
MaxListed == 2

\* Python's None.
None == "None"
\* None where the code holds a datetime (_trip_time before the first trip).
NoTime == -1

\* ------------------------------------------------------- circuit breaker
CLOSED == "closed"
OPEN == "open"
HALF_OPEN == "half_open"

CircuitBreakerState == {CLOSED, OPEN, HALF_OPEN}

\* Instances of CircuitBreakerConfig, scaled down as the unit tests' fixture
\* does (cents and seconds in single digits).
CircuitBreakerConfig ==
    { [max_daily_loss_cents |-> 3,
       max_consecutive_losses |-> 2,
       max_exposure_cents |-> 1,
       cooldown_seconds |-> 2,
       half_open_test_limit |-> l] : l \in {1, 2} }

\* CircuitBreaker.__init__ together with CircuitBreakerMetrics' defaults.
\* last_loss_time and last_trip_time are written and never read: left out.
CircuitBreakerInit ==
    [state |-> CLOSED,
     daily_loss_cents |-> 0,
     consecutive_losses |-> 0,
     total_exposure_cents |-> 0,
     trip_count |-> 0,
     trip_reason |-> None,
     trip_time |-> NoTime,
     half_open_trades |-> 0]

Max(a, b) == IF a >= b THEN a ELSE b
Min(a, b) == IF a <= b THEN a ELSE b
Abs(a) == IF a < 0 THEN -a ELSE a

\* What a breaker method hands back: the breaker after the call, whether
\* CircuitBreakerOpenError was raised and with which cooldown_remaining, and
\* which callbacks ran (on_trip with its reason, on_reset).  An optional
\* number is the empty sequence or the sequence of that number.
Outcome(b, raised, remaining, tripReason, reset) ==
    [cb |-> b, raised |-> raised, cooldown_remaining |-> remaining,
     on_trip |-> tripReason, on_reset |-> reset]

\* _trip(reason), with t the clock read by _trip.
trip(b, reason, t) ==
    [b EXCEPT !.state = OPEN,
              !.trip_reason = reason,
              !.trip_time = t,
              !.trip_count = b.trip_count + 1]

\* The reason _check_trip_conditions computes (None: no threshold is met).
\* The three tests are an if/elif chain, in this order.
trip_condition(b, cfg) ==
    IF b.daily_loss_cents >= cfg.max_daily_loss_cents THEN "Daily loss limit"
    ELSE IF b.consecutive_losses >= cfg.max_consecutive_losses THEN "Consecutive losses"
    ELSE IF b.total_exposure_cents >= cfg.max_exposure_cents THEN "Exposure limit"
    ELSE None

\* _check_trip_conditions: nothing when already OPEN, else trip on a reason.
check_trip_conditions(b, cfg, t) ==
    IF b.state = OPEN THEN Outcome(b, FALSE, <<>>, None, FALSE)
    ELSE IF trip_condition(b, cfg) # None
         THEN Outcome(trip(b, trip_condition(b, cfg), t), FALSE, <<>>,
                      trip_condition(b, cfg), FALSE)
         ELSE Outcome(b, FALSE, <<>>, None, FALSE)

\* _should_transition_to_half_open with the comparison made strict.
should_transition_strict(b, cfg, t) ==
    IF b.trip_time = NoTime THEN TRUE
    ELSE t - b.trip_time > cfg.cooldown_seconds

\* _should_transition_to_half_open, with t the clock it reads.
should_transition_to_half_open(b, cfg, t) ==
    IF b.trip_time = NoTime THEN TRUE
    ELSE t - b.trip_time >= cfg.cooldown_seconds

\* _cooldown_remaining, with t the clock it reads.
cooldown_remaining(b, cfg, t) ==
    IF b.trip_time = NoTime THEN 0
    ELSE Max(0, cfg.cooldown_seconds - (t - b.trip_time))

\* _transition_to_half_open.
transition_to_half_open(b) ==
    [b EXCEPT !.state = HALF_OPEN, !.half_open_trades = 0]

\* _transition_to_closed (the on_reset callback is reported by the caller).
transition_to_closed(b) ==
    [b EXCEPT !.state = CLOSED,
              !.trip_reason = None,
              !.trip_time = NoTime,
              !.half_open_trades = 0]

\* The HALF_OPEN part of check_and_allow with the limit test off by one.
half_open_allow_off_by_one(b, cfg) ==
    IF b.state = HALF_OPEN
    THEN IF b.half_open_trades > cfg.half_open_test_limit
         THEN Outcome(b, TRUE, <<0>>, None, FALSE)
         ELSE Outcome([b EXCEPT !.half_open_trades = b.half_open_trades + 1],
                      FALSE, <<>>, None, FALSE)
    ELSE Outcome(b, FALSE, <<>>, None, FALSE)

\* The HALF_OPEN part of check_and_allow (lines 127-136).
half_open_allow(b, cfg) ==
    IF b.state = HALF_OPEN
    THEN IF b.half_open_trades >= cfg.half_open_test_limit
         THEN Outcome(b, TRUE, <<0>>, None, FALSE)
         ELSE Outcome([b EXCEPT !.half_open_trades = b.half_open_trades + 1],
                      FALSE, <<>>, None, FALSE)
    ELSE Outcome(b, FALSE, <<>>, None, FALSE)

\* check_and_allow.  t1 is the clock read by _should_transition_to_half_open
\* and t2 >= t1 the clock read afterwards by _cooldown_remaining.
check_and_allow(b, cfg, t1, t2) ==
    IF b.state = OPEN
    THEN IF should_transition_to_half_open(b, cfg, t1)
         THEN half_open_allow(transition_to_half_open(b), cfg)
         ELSE Outcome(b, TRUE, <<cooldown_remaining(b, cfg, t2)>>, None, FALSE)
    ELSE half_open_allow(b, cfg)

\* record_trade_result leaving the loss and win counters alone while OPEN.
record_trade_result_unless_open(b, cfg, profit_cents, exposure_cents, t) ==
    LET b1 == [b EXCEPT !.total_exposure_cents = exposure_cents] IN
    IF b.state = OPEN THEN Outcome(b1, FALSE, <<>>, None, FALSE)
    ELSE IF profit_cents < 0
    THEN check_trip_conditions(
             [b1 EXCEPT !.daily_loss_cents = b1.daily_loss_cents + Abs(profit_cents),
                        !.consecutive_losses = b1.consecutive_losses + 1],
             cfg, t)
    ELSE LET b2 == [b1 EXCEPT !.consecutive_losses = 0] IN
         IF b2.state = HALF_OPEN
         THEN Outcome(transition_to_closed(b2), FALSE, <<>>, None, TRUE)
         ELSE Outcome(b2, FALSE, <<>>, None, FALSE)

\* record_trade_result(profit_cents, exposure_cents), t the clock.
record_trade_result(b, cfg, profit_cents, exposure_cents, t) ==
    LET b1 == [b EXCEPT !.total_exposure_cents = exposure_cents] IN
    IF profit_cents < 0
    THEN check_trip_conditions(
             [b1 EXCEPT !.daily_loss_cents = b1.daily_loss_cents + Abs(profit_cents),
                        !.consecutive_losses = b1.consecutive_losses + 1],
             cfg, t)
    ELSE LET b2 == [b1 EXCEPT !.consecutive_losses = 0] IN
         IF b2.state = HALF_OPEN
         THEN Outcome(transition_to_closed(b2), FALSE, <<>>, None, TRUE)
         ELSE Outcome(b2, FALSE, <<>>, None, FALSE)

\* record_exposure(exposure_cents), t the clock.
record_exposure(b, cfg, exposure_cents, t) ==
    check_trip_conditions([b EXCEPT !.total_exposure_cents = exposure_cents], cfg, t)

\* reset_daily_metrics.
reset_daily_metrics(b) ==
    Outcome([b EXCEPT !.daily_loss_cents = 0], FALSE, <<>>, None, FALSE)

\* force_close.
force_close(b) ==
    Outcome(transition_to_closed(b), FALSE, <<>>, None, TRUE)

\* force_open(reason), t the clock.
force_open(b, t) ==
    Outcome(trip(b, "Manual trigger", t), FALSE, <<>>, "Manual trigger", FALSE)


\* ---------------------------------------------------------- opportunities
MULTI_OUTCOME == "multi_outcome"
TIME_BASED == "time_based"
CORRELATED == "correlated"

BUY == "buy"
SELL == "sell"

\* ArbitrageLeg(side = YES, quantity = 1), as every strategy builds its legs.
ArbitrageLeg(action, price) == [action |-> action, price |-> price, quantity |-> 1]

\* ProfitCalculator.calculate_total_fees: the largest, over the BUY legs, of
\* ceil(0.007 * (100 - price) * quantity); 0 without a BUY leg.
RECURSIVE calculate_total_fees(_)
calculate_total_fees(legs) ==
    IF legs = <<>> THEN 0
    ELSE LET leg == Head(legs)
             fee == IF leg.action = BUY
                    THEN (7 * (100 - leg.price) * leg.quantity + 999) \div 1000
                    ELSE 0
         IN Max(fee, calculate_total_fees(Tail(legs)))

\* ArbitrageOpportunity, without its id, tickers, detection time and
\* confidence.
ArbitrageOpportunity(type, legs, total_cost, guaranteed_return, gross_profit, fees, net_profit, max_qty) ==
    [type |-> type, legs |-> legs, total_cost_cents |-> total_cost,
     guaranteed_return_cents |-> guaranteed_return,
     gross_profit_cents |-> gross_profit,
     estimated_fees_cents |-> fees,
     net_profit_cents |-> net_profit, max_quantity |-> max_qty]

\* No opportunity (detect returned None / nothing is being handled).
NoOpportunity == [type |-> None]

\* MultiOutcomeStrategy.detect on two markets whose implied YES asks are a1
\* and a2, with q1 and q2 contracts at those asks.
multi_outcome_detect(a1, a2, q1, q2, min_profit) ==
    LET legs == <<ArbitrageLeg(BUY, a1), ArbitrageLeg(BUY, a2)>>
        total_cost == a1 + a2
        gross_profit == 100 - total_cost
        fees == calculate_total_fees(legs)
        net_profit == gross_profit - fees
    IN IF q1 <= 0 \/ q2 <= 0 THEN NoOpportunity
       ELSE IF total_cost >= 100 THEN NoOpportunity
       ELSE IF net_profit < min_profit THEN NoOpportunity
       ELSE ArbitrageOpportunity(MULTI_OUTCOME, legs, total_cost, 100, gross_profit,
                                 fees, net_profit, Min(q1, q2))

\* TimeBasedStrategy.detect on an earlier market whose best YES bid is
\* earlier_yes_bid (bid_qty contracts) and a later market whose implied YES
\* ask is later_yes_ask (ask_qty contracts).
time_based_detect(earlier_yes_bid, later_yes_ask, bid_qty, ask_qty, min_profit, min_price_diff) ==
    LET price_diff == earlier_yes_bid - later_yes_ask
        legs == <<ArbitrageLeg(SELL, earlier_yes_bid), ArbitrageLeg(BUY, later_yes_ask)>>
        total_cost == later_yes_ask - earlier_yes_bid
        gross_profit == price_diff
        fees == calculate_total_fees(legs)
        net_profit == gross_profit - fees
        max_qty == Min(bid_qty, ask_qty)
    IN IF price_diff < min_price_diff THEN NoOpportunity
       ELSE IF net_profit < min_profit THEN NoOpportunity
       ELSE IF max_qty <= 0 THEN NoOpportunity
       ELSE ArbitrageOpportunity(TIME_BASED, legs, Max(total_cost, 0), price_diff,
                                 gross_profit, fees, net_profit, max_qty)

\* CorrelatedStrategy.detect_implies on an antecedent whose best YES bid is
\* a_bid and a consequent whose implied YES ask is b_ask.
detect_implies(a_bid, b_ask, bid_qty, ask_qty, min_profit) ==
    LET price_diff == a_bid - b_ask
        legs == <<ArbitrageLeg(SELL, a_bid), ArbitrageLeg(BUY, b_ask)>>
        gross_profit == price_diff
        fees == calculate_total_fees(legs)
        net_profit == gross_profit - fees
        max_qty == Min(bid_qty, ask_qty)
    IN IF price_diff <= 0 THEN NoOpportunity
       ELSE IF net_profit < min_profit THEN NoOpportunity
       ELSE IF max_qty <= 0 THEN NoOpportunity
       ELSE ArbitrageOpportunity(CORRELATED, legs, b_ask, a_bid, gross_profit,
                                 fees, net_profit, max_qty)

\* CorrelatedStrategy.detect_excludes on two markets whose implied YES asks
\* are a_ask and b_ask, with qty_a and qty_b contracts at those asks.
detect_excludes(a_ask, b_ask, qty_a, qty_b, min_profit) ==
    LET total_cost == a_ask + b_ask
        legs == <<ArbitrageLeg(BUY, a_ask), ArbitrageLeg(BUY, b_ask)>>
        gross_profit == 100 - total_cost
        fees == calculate_total_fees(legs)
        net_profit == gross_profit - fees
        max_qty == Min(qty_a, qty_b)
    IN IF total_cost >= 100 THEN NoOpportunity
       ELSE IF net_profit < min_profit THEN NoOpportunity
       ELSE IF max_qty <= 0 THEN NoOpportunity
       ELSE ArbitrageOpportunity(CORRELATED, legs, total_cost, 100, gross_profit,
                                 fees, net_profit, max_qty)

\* CorrelatedStrategy._create_equivalent_opportunity reporting the sale price
\* as the cost.
create_equivalent_opportunity_cost_swapped(sell_price, buy_price, sell_qty, buy_qty, min_profit) ==
    LET legs == <<ArbitrageLeg(SELL, sell_price), ArbitrageLeg(BUY, buy_price)>>
        gross_profit == sell_price - buy_price
        fees == calculate_total_fees(legs)
        net_profit == gross_profit - fees
        max_qty == Min(sell_qty, buy_qty)
    IN IF net_profit < min_profit THEN NoOpportunity
       ELSE IF max_qty <= 0 THEN NoOpportunity
       ELSE ArbitrageOpportunity(CORRELATED, legs, sell_price, buy_price, gross_profit,
                                 fees, net_profit, max_qty)

\* CorrelatedStrategy._create_equivalent_opportunity.
create_equivalent_opportunity(sell_price, buy_price, sell_qty, buy_qty, min_profit) ==
    LET legs == <<ArbitrageLeg(SELL, sell_price), ArbitrageLeg(BUY, buy_price)>>
        gross_profit == sell_price - buy_price
        fees == calculate_total_fees(legs)
        net_profit == gross_profit - fees
        max_qty == Min(sell_qty, buy_qty)
    IN IF net_profit < min_profit THEN NoOpportunity
       ELSE IF max_qty <= 0 THEN NoOpportunity
       ELSE ArbitrageOpportunity(CORRELATED, legs, buy_price, sell_price, gross_profit,
                                 fees, net_profit, max_qty)

\* ---------------------------------------------------------- order manager
RESTING == "resting"
PENDING == "pending"
CANCELED == "canceled"
EXECUTED == "executed"
PARTIAL_FILL == "partial"

OrderStatus == {RESTING, PENDING, CANCELED, EXECUTED, PARTIAL_FILL}

SUBMITTING == "submitting"
PARTIAL == "partial"
COMPLETE == "complete"
FAILED == "failed"

\* OrderGroup: status, error and orders, the statuses of the orders of the
\* legs submitted so far.  The legs of an opportunity are on distinct
\* tickers and are submitted in order, so the dict ticker -> Order is the
\* sequence of the orders of legs 1..Len(orders).
OrderGroup(status, orders, error) ==
    [status |-> status, orders |-> orders, error |-> error]

NoGroup == OrderGroup(None, <<>>, None)

\* The number of orders of the group that are EXECUTED (OrderGroup.filled_legs
\* and the filled_count of submit_order_group).
filled_legs(orders) ==
    Cardinality({i \in DOMAIN orders : orders[i] = EXECUTED})

\* submit_order_group with the comparison against the number of legs dropped:
\* COMPLETE as soon as one order is EXECUTED.
classify_any_filled(orders, nlegs) ==
    IF filled_legs(orders) > 0 THEN OrderGroup(COMPLETE, orders, None)
    ELSE OrderGroup(FAILED, orders, "No legs filled")

\* submit_order_group, lines 227-250: the classification once every leg has
\* been submitted without an exception.
classify(orders, nlegs) ==
    IF filled_legs(orders) = nlegs THEN OrderGroup(COMPLETE, orders, None)
    ELSE IF filled_legs(orders) > 0 THEN OrderGroup(PARTIAL, orders, None)
    ELSE OrderGroup(FAILED, orders, "No legs filled")

\* submit_order_group, lines 252-255: a leg's submission raised.
submission_failed(orders) == OrderGroup(FAILED, orders, "Failed to submit order")

\* _cancel_group_orders: the legs whose order is RESTING, in dict order.
resting_legs(orders) ==
    SelectSeq([i \in 1..Len(orders) |-> i], LAMBDA i : orders[i] = RESTING)

\* --------------------------------------------------------------- executor
\* ExecutionResult.
ExecutionResult(success, profit_cents, error) ==
    [success |-> success, profit_cents |-> profit_cents, error |-> error]

NoResult == [success |-> None]

\* _execute_internal, lines 160-204: the result for a submitted group.
execution_result(g, o, qty) ==
    IF g.status = COMPLETE THEN ExecutionResult(TRUE, o.net_profit_cents * qty, None)
    ELSE IF g.status = PARTIAL THEN ExecutionResult(FALSE, 0, "Partial fill")
    ELSE ExecutionResult(FALSE, 0, IF g.error # None THEN g.error ELSE "Execution failed")

\* _execute_internal, lines 142-144: the quantity to submit.
execute_quantity(quantity, o) ==
    Min(IF quantity = 0 THEN o.max_quantity ELSE quantity, o.max_quantity)

\* ----------------------------------------------------------------- engine
\* The breaker configuration the engine builds from its settings (scaled
\* down); half_open_test_limit keeps its default.
EngineConfig ==
    [max_daily_loss_cents |-> 3,
     max_consecutive_losses |-> 2,
     max_exposure_cents |-> 2,
     cooldown_seconds |-> 2,
     half_open_test_limit |-> 1]

\* ExposureManager.check_trade, lines 76-94: the total-exposure test for
\* quantity contracts (the limit is the settings' max_exposure_cents).
total_exposure_allowed(current_total, o, quantity, cfg) ==
    ~(current_total + o.total_cost_cents * quantity > cfg.max_exposure_cents)

\* _handle_opportunity, lines 323-331: the quantity executed.  check_trade
\* is called for its default quantity, 1, and an allowing check hands that
\* back as max_allowed_quantity.
handled_quantity(o) == execute_quantity(Min(o.max_quantity, 1), o)

\* _handle_opportunity, lines 333-343: the engine charges the breaker.
engine_record(b, cfg, r, o, exposure, t) ==
    IF r.success
    THEN record_trade_result(b, cfg, r.profit_cents, exposure, t)
    ELSE record_trade_result(b, cfg, -o.total_cost_cents, exposure, t)

\* ------------------------------------------------------------ order books
\* OrderbookLevel.
OrderbookLevel(price, quantity) == [price |-> price, quantity |-> quantity]

\* Orderbook: the ladders of YES bids and of NO bids.
Orderbook(yes_bids, no_bids) == [yes_bids |-> yes_bids, no_bids |-> no_bids]

EmptyBook == Orderbook(<<>>, <<>>)

\* max(level.price for level in levels), levels not empty.
best_price(levels) ==
    CHOOSE p \in {levels[i].price : i \in DOMAIN levels} :
        \A i \in DOMAIN levels : levels[i].price <= p

\* sum(level.quantity for level in levels if level.price == price).
RECURSIVE quantity_at(_, _)
quantity_at(levels, price) ==
    IF levels = <<>> THEN 0
    ELSE (IF Head(levels).price = price THEN Head(levels).quantity ELSE 0)
         + quantity_at(Tail(levels), price)

\* Orderbook.best_yes_bid, defined when yes_bids is not empty (None otherwise).
best_yes_bid(ob) == best_price(ob.yes_bids)

\* Orderbook.best_no_bid, defined when no_bids is not empty (None otherwise).
best_no_bid(ob) == best_price(ob.no_bids)

\* Orderbook.best_yes_ask, defined when no_bids is not empty (None otherwise).
best_yes_ask(ob) == 100 - best_no_bid(ob)

\* Orderbook.yes_ask_quantity.
yes_ask_quantity(ob) ==
    IF ob.no_bids = <<>> THEN 0 ELSE quantity_at(ob.no_bids, best_no_bid(ob))

\* _get_bid_quantity of the strategies.
get_bid_quantity(ob) ==
    IF ob.yes_bids = <<>> THEN 0 ELSE quantity_at(ob.yes_bids, best_yes_bid(ob))

\* Orderbook.best_no_ask, defined when yes_bids is not empty (None otherwise).
best_no_ask(ob) == 100 - best_yes_bid(ob)

\* Orderbook.get_acquisition_cost(side, quantity): the empty sequence for
\* None, else the sequence of the cost.  side is "yes" or "no".
get_acquisition_cost(ob, side, quantity) ==
    IF side = "yes"
    THEN IF ob.no_bids = <<>> THEN <<>> ELSE <<best_yes_ask(ob) * quantity>>
    ELSE IF ob.yes_bids = <<>> THEN <<>> ELSE <<best_no_ask(ob) * quantity>>

\* ---------------------------------------------------- strategies on books
\* MultiOutcomeStrategy's min_markets and max_markets, and the default
\* price_threshold of CorrelatedStrategy.detect_equivalent.
min_markets == 2
max_markets == 3
price_threshold == 5

\* sum(...) of a list of numbers.
RECURSIVE SumOf(_)
SumOf(numbers) ==
    IF numbers = <<>> THEN 0 ELSE Head(numbers) + SumOf(Tail(numbers))

\* The first number of a list, where min(...) is meant.
MinOf_taking_first(numbers) == Head(numbers)

\* min(...) of a list of numbers that is not empty.
MinOf(numbers) ==
    CHOOSE m \in {numbers[i] : i \in DOMAIN numbers} :
        \A i \in DOMAIN numbers : m <= numbers[i]

\* The legs of MultiOutcomeStrategy.detect: BUY YES at each market's ask.
RECURSIVE buy_legs(_)
buy_legs(asks) ==
    IF asks = <<>> THEN <<>>
    ELSE <<ArbitrageLeg(BUY, Head(asks))>> \o buy_legs(Tail(asks))

\* The opportunity with the tickers the strategy writes into its legs: a
\* market is named by its place in the call's arguments.
on_markets(o, tickers) ==
    IF o = NoOpportunity THEN o
    ELSE [o EXCEPT !.legs = [i \in DOMAIN o.legs |->
              [action |-> o.legs[i].action, price |-> o.legs[i].price,
               quantity |-> o.legs[i].quantity, ticker |-> tickers[i]]]]

\* MultiOutcomeStrategy.detect without its max_markets test.
MultiOutcomeStrategy_detect_any_size(n, orderbooks, min_profit) ==
    IF n < min_markets THEN NoOpportunity
    ELSE IF \E i \in 1..n : \/ i \notin DOMAIN orderbooks
                            \/ orderbooks[i].no_bids = <<>>
                            \/ yes_ask_quantity(orderbooks[i]) <= 0
    THEN NoOpportunity
    ELSE LET asks == [i \in 1..n |-> best_yes_ask(orderbooks[i])]
             max_quantities == [i \in 1..n |-> yes_ask_quantity(orderbooks[i])]
             legs == buy_legs(asks)
             total_cost == SumOf(asks)
             gross_profit == 100 - total_cost
             fees == calculate_total_fees(legs)
             net_profit == gross_profit - fees
         IN IF total_cost >= 100 THEN NoOpportunity
            ELSE IF net_profit < min_profit THEN NoOpportunity
            ELSE on_markets(ArbitrageOpportunity(MULTI_OUTCOME, legs, total_cost, 100,
                                gross_profit, fees, net_profit, MinOf(max_quantities)),
                            [i \in 1..n |-> i])

\* MultiOutcomeStrategy.detect(markets, orderbooks) on the markets 1..n of
\* one event; orderbooks maps the markets that have a book to their books.
\* The loop returns None at the first market without a book, without a NO
\* bid or without quantity at the implied ask.
MultiOutcomeStrategy_detect(n, orderbooks, min_profit) ==
    IF n < min_markets THEN NoOpportunity
    ELSE IF n > max_markets THEN NoOpportunity
    ELSE IF \E i \in 1..n : \/ i \notin DOMAIN orderbooks
                            \/ orderbooks[i].no_bids = <<>>
                            \/ yes_ask_quantity(orderbooks[i]) <= 0
    THEN NoOpportunity
    ELSE LET asks == [i \in 1..n |-> best_yes_ask(orderbooks[i])]
             max_quantities == [i \in 1..n |-> yes_ask_quantity(orderbooks[i])]
             legs == buy_legs(asks)
             total_cost == SumOf(asks)
             gross_profit == 100 - total_cost
             fees == calculate_total_fees(legs)
             net_profit == gross_profit - fees
         IN IF total_cost >= 100 THEN NoOpportunity
            ELSE IF net_profit < min_profit THEN NoOpportunity
            ELSE on_markets(ArbitrageOpportunity(MULTI_OUTCOME, legs, total_cost, 100,
                                gross_profit, fees, net_profit, MinOf(max_quantities)),
                            [i \in 1..n |-> i])

\* TimeBasedStrategy._validate_expiration_order; an expiration time is the
\* empty sequence (None) or the sequence of its time.
validate_expiration_order(earlier, later) ==
    IF earlier = <<>> \/ later = <<>> THEN FALSE ELSE earlier[1] < later[1]

\* TimeBasedStrategy.detect on the books of market 1 (earlier) and market 2
\* (later).
TimeBasedStrategy_detect(earlier, later, earlier_orderbook, later_orderbook, min_profit, min_diff) ==
    IF ~validate_expiration_order(earlier, later) THEN NoOpportunity
    ELSE IF earlier_orderbook.yes_bids = <<>> \/ later_orderbook.no_bids = <<>>
    THEN NoOpportunity
    ELSE on_markets(time_based_detect(best_yes_bid(earlier_orderbook),
                                      best_yes_ask(later_orderbook),
                                      get_bid_quantity(earlier_orderbook),
                                      yes_ask_quantity(later_orderbook),
                                      min_profit, min_diff),
                    <<1, 2>>)

\* CorrelatedStrategy.detect_implies on the books of market 1 (antecedent)
\* and market 2 (consequent).
CorrelatedStrategy_detect_implies(antecedent_ob, consequent_ob, min_profit) ==
    IF antecedent_ob.yes_bids = <<>> \/ consequent_ob.no_bids = <<>>
    THEN NoOpportunity
    ELSE on_markets(detect_implies(best_yes_bid(antecedent_ob),
                                   best_yes_ask(consequent_ob),
                                   get_bid_quantity(antecedent_ob),
                                   yes_ask_quantity(consequent_ob), min_profit),
                    <<1, 2>>)

\* CorrelatedStrategy.detect_excludes on the books of markets 1 and 2.
CorrelatedStrategy_detect_excludes(orderbook_a, orderbook_b, min_profit) ==
    IF orderbook_a.no_bids = <<>> \/ orderbook_b.no_bids = <<>>
    THEN NoOpportunity
    ELSE on_markets(detect_excludes(best_yes_ask(orderbook_a), best_yes_ask(orderbook_b),
                                    yes_ask_quantity(orderbook_a),
                                    yes_ask_quantity(orderbook_b), min_profit),
                    <<1, 2>>)

\* CorrelatedStrategy.detect_equivalent on the books of markets 1 and 2:
\* sell 1 and buy 2 when 1's bid is price_threshold above 2's ask, else
\* sell 2 and buy 1 when 2's bid is price_threshold above 1's ask.
CorrelatedStrategy_detect_equivalent(orderbook_a, orderbook_b, min_profit) ==
    IF \/ orderbook_a.yes_bids = <<>> \/ orderbook_a.no_bids = <<>>
       \/ orderbook_b.yes_bids = <<>> \/ orderbook_b.no_bids = <<>>
    THEN NoOpportunity
    ELSE IF best_yes_bid(orderbook_a) - best_yes_ask(orderbook_b) >= price_threshold
    THEN on_markets(create_equivalent_opportunity(
                        best_yes_bid(orderbook_a), best_yes_ask(orderbook_b),
                        get_bid_quantity(orderbook_a), yes_ask_quantity(orderbook_b),
                        min_profit),
                    <<1, 2>>)
    ELSE IF best_yes_bid(orderbook_b) - best_yes_ask(orderbook_a) >= price_threshold
    THEN on_markets(create_equivalent_opportunity(
                        best_yes_bid(orderbook_b), best_yes_ask(orderbook_a),
                        get_bid_quantity(orderbook_b), yes_ask_quantity(orderbook_a),
                        min_profit),
                    <<2, 1>>)
    ELSE NoOpportunity

\* ---------------------------------------------------------------- ranking
\* The fields of an ArbitrageOpportunity that get_best_opportunity reads;
\* confidence, a float between 0 and 1, is held in hundredths.
Ranked(net_profit, confidence, max_qty) ==
    [net_profit_cents |-> net_profit, confidence |-> confidence,
     max_quantity |-> max_qty]

\* ArbitrageOpportunity.is_profitable.
is_profitable(o) == o.net_profit_cents > 0

\* score of get_best_opportunity, times ten:
\* net_profit_cents * 100 + confidence * 10 + max_quantity.
score(o) == o.net_profit_cents * 1000 + o.confidence + o.max_quantity * 10

\* get_best_opportunity(opportunities): max(profitable, key = score), the
\* first of the highest score; None without a profitable one.
get_best_opportunity(opportunities) ==
    LET profitable == SelectSeq(opportunities, is_profitable)
    IN IF opportunities = <<>> THEN NoOpportunity
       ELSE IF profitable = <<>> THEN NoOpportunity
       ELSE profitable[CHOOSE i \in DOMAIN profitable :
                           /\ \A j \in DOMAIN profitable :
                                  score(profitable[j]) <= score(profitable[i])
                           /\ \A j \in 1..(i - 1) :
                                  score(profitable[j]) < score(profitable[i])]

\* ------------------------------------------------------------- validation
\* The legs of an opportunity are on distinct markets: leg i trades the
\* market of orderbooks[i].
\* MultiOutcomeStrategy.validate_opportunity: every leg is read as a buy.
RECURSIVE multi_outcome_legs_valid(_, _, _)
multi_outcome_legs_valid(legs, orderbooks, i) ==
    IF i > Len(legs) THEN TRUE
    ELSE LET ob == orderbooks[i]
             leg == legs[i]
         IN IF ob.no_bids = <<>> THEN FALSE
            ELSE IF best_yes_ask(ob) > leg.price THEN FALSE
            ELSE IF yes_ask_quantity(ob) < leg.quantity THEN FALSE
            ELSE multi_outcome_legs_valid(legs, orderbooks, i + 1)

RECURSIVE total_yes_ask(_, _)
total_yes_ask(orderbooks, n) ==
    IF n = 0 THEN 0 ELSE best_yes_ask(orderbooks[n]) + total_yes_ask(orderbooks, n - 1)

multi_outcome_validate(o, orderbooks, min_profit) ==
    /\ multi_outcome_legs_valid(o.legs, orderbooks, 1)
    /\ (100 - total_yes_ask(orderbooks, Len(o.legs))) - calculate_total_fees(o.legs)
           >= min_profit

\* TimeBasedStrategy.validate_opportunity and CorrelatedStrategy's: the test
\* of one leg.
leg_valid(leg, ob) ==
    IF leg.action = SELL
    THEN /\ ob.yes_bids # <<>>
         /\ ~(best_yes_bid(ob) < leg.price)
         /\ ~(get_bid_quantity(ob) < leg.quantity)
    ELSE /\ ob.no_bids # <<>>
         /\ ~(best_yes_ask(ob) > leg.price)
         /\ ~(yes_ask_quantity(ob) < leg.quantity)

two_leg_validate(o, orderbooks) ==
    /\ Len(o.legs) = 2
    /\ \A i \in 1..2 : leg_valid(o.legs[i], orderbooks[i])

\* OpportunityDetector.validate_opportunity, every strategy enabled.
validate_opportunity(o, orderbooks, min_profit) ==
    IF o.type = MULTI_OUTCOME THEN multi_outcome_validate(o, orderbooks, min_profit)
    ELSE two_leg_validate(o, orderbooks)

\* No execution: execute has not been called.
NoExecution == [called |-> FALSE]

\* What execute did: the quantity it was called with (0: None), the quantity
\* of the orders it submitted (0: no order was sent) and the error of the
\* result it returned without submitting.
Execution(quantity, submitted, error) ==
    [called |-> TRUE, quantity |-> quantity, submitted |-> submitted, error |-> error]

\* _execute_internal with validate = True, lines 126-158, up to the
\* submission of the group.
execute_validated(o, quantity, orderbooks, min_profit) ==
    IF ~validate_opportunity(o, orderbooks, min_profit)
    THEN Execution(quantity, 0, "Opportunity no longer valid")
    ELSE IF execute_quantity(quantity, o) <= 0
    THEN Execution(quantity, 0, "No quantity available")
    ELSE Execution(quantity, execute_quantity(quantity, o), None)

\* ------------------------------------------------------------- book store
YES == "yes"
NO == "no"

\* The wire form of a ladder is a list of [price, quantity] pairs; the
\* parsers of the REST response and of the stream's snapshot message turn it
\* into OrderbookLevels in the order received.
parse_levels(wire) ==
    [i \in 1..Len(wire) |-> OrderbookLevel(wire[i][1], wire[i][2])]

\* MarketFetcher._parse_orderbook and _handle_orderbook_snapshot.
parse_orderbook(yes, no) == Orderbook(parse_levels(yes), parse_levels(no))

\* No book is stored for the ticker.
NoBook == [absent |-> TRUE]

\* levels.sort(key = price, reverse = True): stable, equal prices keep their
\* order.
RECURSIVE insert_descending(_, _)
insert_descending(sorted, level) ==
    IF sorted = <<>> THEN <<level>>
    ELSE IF Head(sorted).price >= level.price
         THEN <<Head(sorted)>> \o insert_descending(Tail(sorted), level)
         ELSE <<level>> \o sorted

RECURSIVE sort_descending(_)
sort_descending(levels) ==
    IF levels = <<>> THEN <<>>
    ELSE insert_descending(sort_descending(SubSeq(levels, 1, Len(levels) - 1)),
                           levels[Len(levels)])

\* _update_levels(levels, price, quantity).
update_levels(levels, price, quantity) ==
    IF \E i \in DOMAIN levels : levels[i].price = price
    THEN LET i == CHOOSE k \in DOMAIN levels :
                      /\ levels[k].price = price
                      /\ \A j \in 1..(k - 1) : levels[j].price # price
         IN IF quantity = 0
            THEN SubSeq(levels, 1, i - 1) \o SubSeq(levels, i + 1, Len(levels))
            ELSE [levels EXCEPT ![i] = OrderbookLevel(price, quantity)]
    ELSE IF quantity > 0
         THEN sort_descending(Append(levels, OrderbookLevel(price, quantity)))
         ELSE levels

\* No subscriber has been called.
NoNotice == [ticker |-> None]

\* OrderbookManager: _orderbooks, whether _lock is held, and the latest call
\* of the subscribers' callbacks with whether _lock was held during it.
OrderbookManager(books, lock, notice) ==
    [orderbooks |-> books, lock |-> lock, notice |-> notice]

\* async with self._lock: entering and leaving.
acquire(m) == [m EXCEPT !.lock = TRUE, !.notice = NoNotice]
release(m) == [m EXCEPT !.lock = FALSE]

\* _notify_subscribers(ticker, orderbook).
notify_subscribers(m, ticker) ==
    [m EXCEPT !.notice = [ticker |-> ticker, locked |-> m.lock]]

\* update_snapshot(ticker, orderbook).
update_snapshot(m, ticker, orderbook) ==
    LET m1 == acquire(m)
        m2 == [m1 EXCEPT !.orderbooks[ticker] = orderbook]
        m3 == notify_subscribers(m2, ticker)
    IN release(m3)

\* apply_delta opening a book for a ticker that has none.
apply_delta_creating_book(m, ticker, side, price, quantity) ==
    LET m1 == acquire(m)
        ob == IF m1.orderbooks[ticker] = NoBook THEN EmptyBook ELSE m1.orderbooks[ticker]
        updated ==
            IF side = YES
            THEN Orderbook(update_levels(ob.yes_bids, price, quantity), ob.no_bids)
            ELSE Orderbook(ob.yes_bids, update_levels(ob.no_bids, price, quantity))
        m2 == [m1 EXCEPT !.orderbooks[ticker] = updated]
        m3 == notify_subscribers(m2, ticker)
    IN release(m3)

\* apply_delta(ticker, side, price, quantity).
apply_delta(m, ticker, side, price, quantity) ==
    LET m1 == acquire(m)
    IN IF m1.orderbooks[ticker] = NoBook THEN release(m1)
       ELSE LET ob == m1.orderbooks[ticker]
                updated ==
                    IF side = YES
                    THEN Orderbook(update_levels(ob.yes_bids, price, quantity), ob.no_bids)
                    ELSE Orderbook(ob.yes_bids, update_levels(ob.no_bids, price, quantity))
                m2 == [m1 EXCEPT !.orderbooks[ticker] = updated]
                m3 == notify_subscribers(m2, ticker)
            IN release(m3)

Tickers == {"A", "B"}

\* What a caller of get_orderbook or get_all_orderbooks holds: a reference
\* to the Orderbook object stored for the ticker.  taken is what the object
\* showed when it was handed out, current what it shows now, live whether
\* it is still the object the store keeps for the ticker.
View(via, ticker, taken, current, live) ==
    [via |-> via, ticker |-> ticker, taken |-> taken, current |-> current,
     live |-> live]

\* Nothing has been read.
NoView == [via |-> None]

\* get_orderbook(ticker): the stored object itself (it is called on a
\* ticker that has a book).
get_orderbook(m, ticker) ==
    View("get_orderbook", ticker, m.orderbooks[ticker], m.orderbooks[ticker], TRUE)

\* get_all_orderbooks()[ticker]: dict(self._orderbooks) copies the dict, its
\* values are the stored objects.
get_all_orderbooks(m, ticker) ==
    View("get_all_orderbooks", ticker, m.orderbooks[ticker], m.orderbooks[ticker], TRUE)

\* The held object after update_snapshot(ticker, ...): the store keeps
\* another object for that ticker from now on.
view_after_snapshot(v, ticker) ==
    IF v # NoView /\ v.ticker = ticker THEN [v EXCEPT !.live = FALSE] ELSE v

\* The held object after apply_delta took the store to m: the delta is
\* written into the stored object, which is the held one while it is live.
view_after_delta(v, m, ticker) ==
    IF v # NoView /\ v.ticker = ticker /\ v.live
    THEN [v EXCEPT !.current = m.orderbooks[ticker]]
    ELSE v

\* ----------------------------------------------------------------- stream
\* The coroutine a handler of the stream wraps in a task.
SnapshotTask(ticker, orderbook) ==
    [op |-> "update_snapshot", ticker |-> ticker, orderbook |-> orderbook]
DeltaTask(ticker, side, price, quantity) ==
    [op |-> "apply_delta", ticker |-> ticker, side |-> side,
     price |-> price, quantity |-> quantity]

\* Running the coroutine of a task on the OrderbookManager m.
run_task(m, task) ==
    IF task.op = "update_snapshot"
    THEN update_snapshot(m, task.ticker, task.orderbook)
    ELSE apply_delta(m, task.ticker, task.side, task.price, task.quantity)

\* The event loop runs ready callbacks last in, first out.
next_task_lifo(queue) == Len(queue)

\* The event loop runs ready callbacks in the order they were scheduled:
\* the position in the queue of the task that runs next.
next_task(queue) == 1

\* _handle_orderbook_delta: one task per delta of the message, in order.
delta_tasks(ticker, deltas) ==
    [i \in 1..Len(deltas) |->
        DeltaTask(ticker, deltas[i].side, deltas[i].price, deltas[i].delta)]

\* m after the coroutines of tasks ran one after another.
RECURSIVE run_all(_, _)
run_all(m, queue) ==
    IF queue = <<>> THEN m ELSE run_all(run_task(m, Head(queue)), Tail(queue))

\* ---------------------------------------------------------- stream client
\* KalshiWebSocketClient: the socket _ws ("none", "open" or "closed"),
\* _subscribed_tickers, _reconnect_count, and where run() is: "connecting"
\* (about to call connect) or "listening" (in _message_loop).
WebSocketClient(ws, subscribed, count, at) ==
    [ws |-> ws, subscribed |-> subscribed, reconnect_count |-> count, pc |-> at]

\* _reconnect, up to its sleep.
reconnect(c) ==
    [c EXCEPT !.reconnect_count = c.reconnect_count + 1, !.pc = "connecting"]

\* _resubscribe inside connect, and what run() does with its outcome: the
\* tickers are cleared, then subscribe_orderbook sends the request and
\* re-adds them; a failing send raises before the re-adding.  closes: the
\* failure leaves the socket closed.
resubscribe(c, sendOk, closes) ==
    IF c.subscribed = {} THEN [c EXCEPT !.pc = "listening"]
    ELSE IF sendOk
    THEN [c EXCEPT !.pc = "listening"]
    ELSE reconnect([c EXCEPT !.subscribed = {},
                             !.ws = IF closes THEN "closed" ELSE c.ws])

\* The tickers of the subscribe request connect sends.
resubscribe_request(c, sendOk) == IF sendOk THEN c.subscribed ELSE {}

\* connect() called from run(): connected is whether websockets.connect
\* succeeds.
connect(c, connected, sendOk, closes) ==
    IF c.ws = "open" THEN [c EXCEPT !.pc = "listening"]
    ELSE IF ~connected THEN reconnect(c)
    ELSE resubscribe([c EXCEPT !.ws = "open", !.reconnect_count = 0], sendOk, closes)

\* --------------------------------------------------------------- shutdown
\* The coroutines start() gathers.
Loops == {"websocket", "scan", "sync", "wait"}

\* The engine's _running and _shutdown_event, where start() and a caller's
\* stop() are, and the stream client's _running and socket.
ArbitrageBotEngine(running, shutdown_event, start, stop_pc, ws_running, ws) ==
    [running |-> running, shutdown_event |-> shutdown_event, start |-> start,
     stop |-> stop_pc, ws_running |-> ws_running, ws |-> ws]

\* stop() up to its first suspension: both flags, then disconnect() clears
\* the stream client's _running and closes its socket.
stop(b) ==
    [b EXCEPT !.running = FALSE, !.shutdown_event = TRUE,
              !.ws_running = FALSE,
              !.ws = IF b.ws = "open" THEN "closed" ELSE b.ws]

\* _handle_signal.
handle_signal(b) == [b EXCEPT !.shutdown_event = TRUE]

\* The loop heads of run() and of _websocket_loop: run() goes round while the
\* client's _running is set; once it returns _websocket_loop calls it again
\* while the engine's _running is set, and run() sets the client's _running.
\* connect() returns at once on an open socket.
run(b) ==
    IF b.ws_running \/ b.running
    THEN [bot |-> [b EXCEPT !.ws_running = TRUE],
          pc |-> IF b.ws = "open" THEN "listening" ELSE "connecting"]
    ELSE [bot |-> b, pc |-> "done"]

\* An exception inside run()'s loop body: _reconnect's sleep if the client's
\* _running is set, else back to the loop head.
run_except(b) ==
    IF b.ws_running THEN [bot |-> b, pc |-> "backoff"] ELSE run(b)

\* The `while self._running` of _scan_loop, then its first suspension.
scan_loop(b) == IF b.running THEN "scanning" ELSE "done"

\* The `while self._running` of _sync_loop, then its sleep.
sync_loop(b) == IF b.running THEN "sleeping" ELSE "done"

\* _wait_for_shutdown: the event's wait().
wait_for_shutdown(b) == IF b.shutdown_event THEN "done" ELSE "waiting"

\* gather(): each coroutine runs to its first suspension.
gather(b) ==
    [bot |-> run(b).bot,
     loops |-> [l \in Loops |->
                  CASE l = "websocket" -> run(b).pc
                    [] l = "scan" -> scan_loop(b)
                    [] l = "sync" -> sync_loop(b)
                    [] l = "wait" -> wait_for_shutdown(b)]]

\* -------------------------------------------------------------- transport
MAX_RETRIES == 3
BACKOFF_BASE == 2
BACKOFF_MAX == 60

\* The exceptions one attempt can raise: src/core/exceptions.py, and the
\* transport's own aiohttp.ClientError and asyncio.TimeoutError.
KalshiError == "KalshiError"
AuthenticationError == "AuthenticationError"
RateLimitError == "RateLimitError"
OrderError == "OrderError"
InsufficientFundsError == "InsufficientFundsError"
ClientError == "ClientError"
TimeoutError == "TimeoutError"

\* isinstance(error, KalshiError).
is_kalshi_error(error) ==
    error \in {KalshiError, AuthenticationError, RateLimitError, OrderError,
               InsufficientFundsError}

\* A response: its status, whether its error message holds "insufficient",
\* its Retry-After header (<<>>: none).
Response(status, insufficient, retry_after) ==
    [status |-> status, insufficient |-> insufficient, retry_after |-> retry_after]

\* _handle_response: the exception it raises (None: it returns the data).
handle_response(response) ==
    IF response.status = 200 THEN None
    ELSE IF response.status = 401 THEN AuthenticationError
    ELSE IF response.status = 429 THEN RateLimitError
    ELSE IF response.status = 400
         THEN (IF response.insufficient THEN InsufficientFundsError ELSE OrderError)
    ELSE IF response.status = 403 THEN AuthenticationError
    ELSE KalshiError

\* A variant whose except clauses also go round again on an OrderError.
except_clause_retrying_orders(error) ==
    IF error \in {RateLimitError, OrderError} THEN "retry"
    ELSE IF error \in {AuthenticationError, InsufficientFundsError} THEN "raise"
    ELSE IF error \in {ClientError, TimeoutError} THEN "retry"
    ELSE IF is_kalshi_error(error) THEN "raise"
    ELSE "propagate"

\* The except clauses of _request, in the order the code lists them.
except_clause(error) ==
    IF error = RateLimitError THEN "retry"
    ELSE IF error \in {AuthenticationError, InsufficientFundsError} THEN "raise"
    ELSE IF error \in {ClientError, TimeoutError} THEN "retry"
    ELSE IF is_kalshi_error(error) THEN "raise"
    ELSE "propagate"

\* retries = self.MAX_RETRIES if retry else 1
retries(retry) == IF retry THEN MAX_RETRIES ELSE 1

\* BACKOFF_BASE ** attempt
RECURSIVE backoff(_)
backoff(attempt) == IF attempt = 0 THEN 1 ELSE BACKOFF_BASE * backoff(attempt - 1)

\* The sleep after attempt number `attempt` (from 0) met `error`:
\* `e.retry_after or min(...)` for a RateLimitError, the backoff otherwise.
wait_time(error, retry_after, attempt) ==
    IF error = RateLimitError /\ retry_after # <<>> /\ retry_after # <<0>>
    THEN retry_after[1]
    ELSE Min(backoff(attempt), BACKOFF_MAX)

\* One _request call: where it is, its retry flag, what each attempt so far
\* met (None: a 200), the sleeps it made, the exception it raised.
Request(pc, retry, met, waits, raised) ==
    [pc |-> pc, retry |-> retry, met |-> met, waits |-> waits, raised |-> raised]

\* An attempt ends with `error` (None: with a 200).
attempt_over(r, error, retry_after) ==
    LET met == Append(r.met, error)
    IN  IF error = None THEN Request("returned", r.retry, met, r.waits, None)
        ELSE IF except_clause(error) = "retry"
        THEN Request("sleeping", r.retry, met,
                     Append(r.waits, wait_time(error, retry_after, Len(r.met))), None)
        ELSE Request("raised", r.retry, met, r.waits, error)

\* The sleep ends: the next round of `for attempt in range(retries)`, or the
\* final raise.
next_attempt(r) ==
    IF Len(r.met) < retries(r.retry)
    THEN [r EXCEPT !.pc = "attempting"]
    ELSE [r EXCEPT !.pc = "raised", !.raised = KalshiError]

\* ---------------------------------------------------------- exposure gate
\* ExposureLimits, scaled down.
ExposureLimits ==
    [max_total_exposure_cents |-> 4,
     max_position_per_market |-> 2,
     max_exposure_per_market_cents |-> 3]

\* A Position: the net contracts (positive = YES) and the exposure in cents.
Position(position, market_exposure) ==
    [position |-> position, market_exposure |-> market_exposure]

\* Position.contracts, read as the net position itself.
contracts_signed(p) == p.position

\* Position.contracts
contracts(p) == Abs(p.position)

\* PositionTracker.get_total_exposure over the tickers in ts.
RECURSIVE exposure_of(_, _)
exposure_of(ps, ts) ==
    IF ts = {} THEN 0
    ELSE LET t == CHOOSE x \in ts : TRUE
         IN  ps[t].market_exposure + exposure_of(ps, ts \ {t})

get_total_exposure(ps) == exposure_of(ps, DOMAIN ps)

\* What check_trade reads of a leg: its ticker and its price.
Leg(ticker, price) == [ticker |-> ticker, price |-> price]

\* What check_trade reads of an opportunity: its legs and total_cost_cents.
Trade(legs, total_cost_cents) == [legs |-> legs, total_cost_cents |-> total_cost_cents]

ExposureCheck(is_allowed, reason, max_allowed_quantity, current, limit) ==
    [allowed |-> is_allowed, reason |-> reason,
     max_allowed_quantity |-> max_allowed_quantity,
     current_exposure_cents |-> current, limit_exposure_cents |-> limit]

\* _calculate_max_quantity
calculate_max_quantity(current, per_unit_cost, limit) ==
    IF per_unit_cost <= 0 THEN 0
    ELSE Max(0, (limit - current) \div per_unit_cost)

\* check_trade's loop over the legs, from leg i on, and its last return.
RECURSIVE check_legs(_, _, _, _, _)
check_legs(ps, limits, opportunity, quantity, i) ==
    LET current_total == get_total_exposure(ps)
        limit == limits.max_total_exposure_cents
    IN  IF i > Len(opportunity.legs)
        THEN ExposureCheck(TRUE, None, quantity, current_total, limit)
        ELSE LET leg == opportunity.legs[i]
                 position == ps[leg.ticker]
                 current_contracts == contracts(position)
                 current_market_exposure == position.market_exposure
             IN  IF current_contracts + quantity > limits.max_position_per_market
                 THEN ExposureCheck(FALSE, "position",
                          limits.max_position_per_market - current_contracts,
                          current_total, limit)
                 ELSE IF current_market_exposure + leg.price * quantity
                            > limits.max_exposure_per_market_cents
                 THEN ExposureCheck(FALSE, "market_exposure",
                          calculate_max_quantity(current_market_exposure, leg.price,
                              limits.max_exposure_per_market_cents),
                          current_total, limit)
                 ELSE check_legs(ps, limits, opportunity, quantity, i + 1)

\* check_trade: a ticker without a Position counts as no contracts and no
\* exposure, which is what its zero Position holds.
check_trade(ps, limits, opportunity, quantity) ==
    LET current_total == get_total_exposure(ps)
        limit == limits.max_total_exposure_cents
    IN  IF current_total + opportunity.total_cost_cents * quantity > limit
        THEN ExposureCheck(FALSE, "total_exposure",
                 calculate_max_quantity(current_total, opportunity.total_cost_cents, limit),
                 current_total, limit)
        ELSE check_legs(ps, limits, opportunity, quantity, 1)

\* ------------------------------------------------------------- executions
\* Executor(max_concurrent), scaled down from its default 3.
max_concurrent == 2

\* The tasks that call Executor.execute.
Callers == {"c1", "c2", "c3"}

\* asyncio.Semaphore: _value and the queue of _waiters.
Semaphore(value, waiters) == [value |-> value, waiters |-> waiters]

\* A locked() that looks at the waiters only, not at the value.
locked_ignoring_value(s) == s.waiters # <<>>

\* Semaphore.locked()
locked(s) == s.value = 0 \/ s.waiters # <<>>

\* Semaphore.acquire() by caller c, up to its return or its suspension.
semaphore_acquire(s, c) ==
    IF ~locked(s) THEN Semaphore(s.value - 1, s.waiters)
    ELSE Semaphore(s.value, Append(s.waiters, c))

\* Semaphore.release(): the slot goes back, and _wake_up_next hands it to
\* the first waiter, if any.
semaphore_release(s) ==
    IF s.waiters = <<>> THEN Semaphore(s.value + 1, s.waiters)
    ELSE Semaphore(s.value, Tail(s.waiters))

\* The caller release() wakes (None: nobody waits).
woken_by_release(s) == IF s.waiters = <<>> THEN None ELSE Head(s.waiters)

\* The order request submit_order sends for a leg: a limit order at the
\* leg's price; the use_ioc argument is not passed on and no expiration_ts
\* is set.
order_request(leg, use_ioc) ==
    [type |-> "limit", price |-> leg.price, expiration_ts |-> None]

\* The statuses the venue can answer a request with: an order without
\* expiration that is not matched at once rests in the book.
venue_statuses(req) ==
    IF req.expiration_ts = None THEN OrderStatus ELSE OrderStatus \ {RESTING}

\* One execute call: where it is, its order group, the legs still to be
\* cancelled, the requests it sent.
ExecuteCall(at, g, cancels, requests) ==
    [pc |-> at, group |-> g, todo |-> cancels, requests |-> requests]

\* cancel_order for leg i of the group returned, and with it the group is
\* marked CANCELED.
cancel_order_closing_group(g, i, ok) ==
    OrderGroup(CANCELED, IF ok THEN [g.orders EXCEPT ![i] = CANCELED] ELSE g.orders,
               g.error)

\* cancel_order for leg i of the group returned: on success the order is
\* CANCELED, on failure it is as it was; the group keeps its status.
cancel_order(g, i, ok) ==
    OrderGroup(g.status, IF ok THEN [g.orders EXCEPT ![i] = CANCELED] ELSE g.orders,
               g.error)

\* ------------------------------------------------------------------ state
VARIABLES
    config,     \* the breaker's CircuitBreakerConfig
    cb,         \* the breaker: _state, _metrics, _trip_reason, _trip_time, _half_open_trades
    now,        \* datetime.utcnow(), in seconds
    last,       \* the breaker call made by the latest step (op = None: none): arguments, outcome
    allowed,    \* check_and_allow calls permitted since the breaker entered HALF_OPEN
    forced,     \* TRUE once force_open or force_close has been called
    pc,         \* where the scan loop's task is suspended
    opp,        \* the opportunity _handle_opportunity is handling
    group,      \* the order group of that opportunity
    todo,       \* _cancel_group_orders: the legs whose order is still to be cancelled
    canceled,   \* the legs for whose order a cancel request has been issued
    result,     \* the ExecutionResult the executor returned
    ledger,     \* PositionTracker.get_total_exposure() (the cached positions)
    sent,       \* the breaker's state when each leg's order request was sent
    orderbooks, \* the executor's view: the current books of the two markets it trades
    candidate,  \* the executor's view: the opportunity detected on those books
    execution,  \* the executor's view: what execute did with the candidate
    manager,    \* the OrderbookManager
    lastop,     \* the latest call of the OrderbookManager: its name and arguments
    tasks,      \* the tasks the stream's handlers created, in the event loop's ready queue
    applied,    \* an OrderbookManager that took every stream message as it arrived
    backlog,    \* the longest the ready queue has been since it was last empty
    client,     \* the stream client: its socket, _subscribed_tickers, _reconnect_count, where run() is
    held,       \* _subscribed_tickers when the connection was last lost while listening
    request,    \* the tickers of the subscribe request the latest step sent ({}: none)
    bot,        \* the engine's _running and _shutdown_event, where start() and stop() are, the stream client's _running and socket
    loops,      \* where each coroutine that start() gathers is suspended
    transfer,   \* one KalshiClient._request call: its retry flag, what each attempt met, how it ended
    positions,  \* PositionTracker._positions: position and market_exposure per ticker
    verdict,    \* the latest check_trade call: its arguments and the ExposureCheck it returned
    calls,      \* the Executor.execute calls: where each is, its order group, the order requests it sent
    semaphore,  \* the executor's asyncio.Semaphore: its _value and its _waiters
    scan,       \* the latest call of a strategy's detect: its arguments and what it returned
    ranking,    \* the latest call of get_best_opportunity: its argument and what it returned
    view,       \* the book a reader of the OrderbookManager obtained and still holds
    quote,      \* the latest call of Orderbook.get_acquisition_cost: its arguments and what it returned
    sink,       \* the results execute returned, _execution_history, the order counters, the alerts asked of the AlertManager
    signing,    \* the latest call of _create_signature_payload: its arguments and what it returned
    limiters,   \* the DualRateLimiter's two token buckets, the monotonic clock, where each caller of acquire is
    pairscan,   \* the latest call of scan_market_pair: its arguments, the rule matched and what it returned
    account,    \* the cached positions, the venue's positions, the cost of the trades executed since the last sync
    order,      \* the latest call of Executor.execute: its arguments, the count of each order request it sent, its result
    tracker     \* the PositionTracker's _positions, where sync_positions is, the map of the last successful sync, what a reader last saw

breakerVars == <<config, cb, now, last, allowed, forced>>
engineVars == <<pc, opp, group, todo, canceled, result, ledger, sent>>
executorVars == <<orderbooks, candidate, execution>>
storeVars == <<manager, lastop>>
streamVars == <<tasks, applied, backlog>>
clientVars == <<client, held, request>>
shutdownVars == <<bot, loops>>
transportVars == <<transfer>>
gateVars == <<positions, verdict>>
executionVars == <<calls, semaphore>>
detectorVars == <<scan>>
rankingVars == <<ranking>>
readerVars == <<view>>
quoteVars == <<quote>>
sinkVars == <<sink>>
signingVars == <<signing>>
limitersVars == <<limiters>>
pairscanVars == <<pairscan>>
accountVars == <<account>>
orderVars == <<order>>
trackerVars == <<tracker>>
finalVars == <<quoteVars, sinkVars, signingVars, limitersVars, pairscanVars, accountVars, orderVars, trackerVars>>
latestVars == <<detectorVars, rankingVars, readerVars, finalVars>>
newerVars == <<executionVars, latestVars>>
laterVars == <<shutdownVars, transportVars, gateVars, newerVars>>
componentVars == <<executorVars, storeVars, streamVars, clientVars, laterVars>>

\* The variables of the components before the latest ones.
settledVars ==
    <<breakerVars, engineVars, executorVars, storeVars, streamVars, clientVars,
      shutdownVars, transportVars, gateVars, executionVars, detectorVars, rankingVars,
      readerVars>>

\* What each of the latest components leaves alone.
otherThanQuote == <<settledVars, sinkVars, signingVars, limitersVars, pairscanVars, accountVars, orderVars, trackerVars>>
otherThanSink == <<settledVars, quoteVars, signingVars, limitersVars, pairscanVars, accountVars, orderVars, trackerVars>>
otherThanSigning == <<settledVars, quoteVars, sinkVars, limitersVars, pairscanVars, accountVars, orderVars, trackerVars>>
otherThanLimiters == <<settledVars, quoteVars, sinkVars, signingVars, pairscanVars, accountVars, orderVars, trackerVars>>
otherThanPairscan == <<settledVars, quoteVars, sinkVars, signingVars, limitersVars, accountVars, orderVars, trackerVars>>
otherThanAccount == <<settledVars, quoteVars, sinkVars, signingVars, limitersVars, pairscanVars, orderVars, trackerVars>>
otherThanOrder == <<settledVars, quoteVars, sinkVars, signingVars, limitersVars, pairscanVars, accountVars, trackerVars>>
otherThanTracker == <<settledVars, quoteVars, sinkVars, signingVars, limitersVars, pairscanVars, accountVars, orderVars>>

vars == <<config, cb, now, last, allowed, forced,
          pc, opp, group, todo, canceled, result, ledger, sent,
          orderbooks, candidate, execution,
          manager, lastop, tasks, applied, backlog,
          client, held, request,
          bot, loops, transfer, positions, verdict,
          calls, semaphore, scan, ranking, view, quote, sink, signing, limiters, pairscan, account, order, tracker>>

NoCall ==
    [op |-> None, profit_cents |-> <<>>, exposure_cents |-> <<>>,
     raised |-> FALSE, cooldown_remaining |-> <<>>,
     on_trip |-> None, on_reset |-> FALSE]

\* A call of breaker method op with outcome out.
Call(op, profit_cents, exposure_cents, out) ==
    [op |-> op, profit_cents |-> profit_cents, exposure_cents |-> exposure_cents,
     raised |-> out.raised, cooldown_remaining |-> out.cooldown_remaining,
     on_trip |-> out.on_trip, on_reset |-> out.on_reset]

\* The counters the code lets grow stay within the model's caps.
Bounded(b) ==
    /\ b.daily_loss_cents <= MaxDailyLoss
    /\ b.consecutive_losses <= MaxConsecutive
    /\ b.trip_count <= MaxTrips

\* The allowance count after a call of op that took the breaker from state
\* before to out.cb.
AllowedAfter(count, before, op, out) ==
    IF out.cb.state # HALF_OPEN THEN 0
    ELSE (IF before = HALF_OPEN THEN count ELSE 0)
         + (IF op = "check_and_allow" /\ ~out.raised THEN 1 ELSE 0)

\* The breaker goes through the call: cb, last and the allowance count.
BreakerCall(op, profit_cents, exposure_cents, out) ==
    /\ Bounded(out.cb)
    /\ cb' = out.cb
    /\ last' = Call(op, profit_cents, exposure_cents, out)
    /\ allowed' = AllowedAfter(allowed, cb.state, op, out)

\* The engine before its loops start: nothing is being handled.
EngineIdle ==
    /\ pc = "scan"
    /\ opp = NoOpportunity
    /\ group = NoGroup
    /\ todo = <<>>
    /\ canceled = {}
    /\ result = NoResult
    /\ ledger = 0
    /\ sent = <<>>

\* The executor before any book has arrived.
ExecutorIdle ==
    /\ orderbooks = <<EmptyBook, EmptyBook>>
    /\ candidate = NoOpportunity
    /\ execution = NoExecution

\* No call of the OrderbookManager.
NoOp == [op |-> None]

\* The OrderbookManager after __init__.
StoreIdle ==
    /\ manager = OrderbookManager([t \in Tickers |-> NoBook], FALSE, NoNotice)
    /\ lastop = NoOp

\* The stream before its first message.
StreamIdle ==
    /\ tasks = <<>>
    /\ applied = OrderbookManager([t \in Tickers |-> NoBook], FALSE, NoNotice)
    /\ backlog = 0

\* The stream client when run() is called: no socket, nothing subscribed.
ClientIdle ==
    /\ client = WebSocketClient("none", {}, 0, "connecting")
    /\ held = {}
    /\ request = {}

\* The engine inside start(), suspended in _initial_sync: _running is set,
\* the signal handlers are installed, nothing is gathered yet.
ShutdownIdle ==
    /\ bot = ArbitrageBotEngine(TRUE, FALSE, "initial_sync", "idle", FALSE, "none")
    /\ loops = [l \in Loops |-> "pending"]

\* No transport request has been made.
TransportIdle ==
    transfer = Request("idle", TRUE, <<>>, <<>>, None)

\* Nothing is held and check_trade has not been called.
GateIdle ==
    /\ positions = [t \in Tickers |-> Position(0, 0)]
    /\ verdict = [called |-> FALSE]

\* No execute call has been made; every slot of the semaphore is free.
ExecutionsIdle ==
    /\ calls = [c \in Callers |-> ExecuteCall("idle", NoGroup, <<>>, <<>>)]
    /\ semaphore = Semaphore(max_concurrent, <<>>)

\* A call of a strategy's detect on the markets 1..n: the books given for
\* them, the expiration times of the two markets (time-based only) and the
\* opportunity returned.
Scan(strategy, n, books, expirations, emitted) ==
    [strategy |-> strategy, n |-> n, orderbooks |-> books,
     expirations |-> expirations, emitted |-> emitted]

\* No strategy has been called.
DetectorIdle ==
    scan = Scan(None, 0, <<>>, <<>>, NoOpportunity)

\* get_best_opportunity has not been called.
RankingIdle ==
    ranking = [called |-> FALSE]

\* No reader holds a book.
ReaderIdle ==
    view = NoView

\* get_acquisition_cost has not been called.
QuoteIdle ==
    quote = [called |-> FALSE]

\* No execution has ended.
SinkIdle ==
    sink = [returned |-> <<>>, history |-> <<>>, orders_filled |-> 0,
            orders_failed |-> 0, alerts |-> <<>>]

\* _create_signature_payload has not been called.
SigningIdle ==
    signing = [called |-> FALSE]

\* ------------------------------------------------------------ rate limiter
\* The rates of the two buckets, in tokens per tick of the monotonic clock
\* (20.0 and 10.0 per second in the program).
read_rate == 2
write_rate == 1

\* RateLimiter.__init__: a full bucket of int(tokens_per_second) tokens and
\* an asyncio.Lock that nobody holds or waits for.
RateLimiter(tokens_per_second) ==
    [tokens_per_second |-> tokens_per_second, bucket_size |-> tokens_per_second,
     tokens |-> tokens_per_second, last_update |-> 0,
     locked |-> FALSE, waiters |-> <<>>]

\* DualRateLimiter.__init__, with the clock at 0 and every caller outside acquire.
DualRateLimiter ==
    [read |-> RateLimiter(read_rate), write |-> RateLimiter(write_rate),
     clock |-> 0, callers |-> [c \in Callers |-> [pc |-> "idle"]],
     latest |-> None]

\* Both buckets are full and no caller is in acquire.
LimitersIdle ==
    limiters = DualRateLimiter

\* scan_market_pair has not been called.
PairScanIdle ==
    pairscan = [called |-> FALSE]

\* Nothing is held, at the venue or in the cache, and nothing has been traded.
AccountIdle ==
    account = [positions |-> [t \in Tickers |-> Position(0, 0)],
               venue |-> [t \in Tickers |-> Position(0, 0)],
               executed |-> 0, trades |-> 0]

\* Executor.execute has not been called.
OrderIdle ==
    order = [called |-> FALSE]

\* ----------------------------------------------------------- position cache
\* No entry of the dict for a ticker.
NoPosition == [absent |-> TRUE]

\* PositionTracker.__init__: an empty dict; no sync has been made and no
\* reader has looked yet.
PositionTracker ==
    [positions |-> [t \in Tickers |-> NoPosition], pc |-> "idle",
     synced |-> <<>>, failed |-> FALSE, seen |-> <<>>]

\* Nothing is cached and no sync is under way.
TrackerIdle ==
    tracker = PositionTracker

FinalIdle ==
    /\ QuoteIdle
    /\ SinkIdle
    /\ SigningIdle
    /\ LimitersIdle
    /\ PairScanIdle
    /\ AccountIdle
    /\ OrderIdle
    /\ TrackerIdle

NewerIdle ==
    /\ ExecutionsIdle
    /\ DetectorIdle
    /\ RankingIdle
    /\ ReaderIdle
    /\ FinalIdle

\* Every other component at rest.
ComponentsIdle ==
    /\ ExecutorIdle
    /\ StoreIdle
    /\ StreamIdle
    /\ ClientIdle
    /\ ShutdownIdle
    /\ TransportIdle
    /\ GateIdle
    /\ NewerIdle

\* ------------------------------------------- the breaker called directly
InitBreaker ==
    /\ config \in CircuitBreakerConfig
    /\ cb = CircuitBreakerInit
    /\ now = 0
    /\ last = NoCall
    /\ allowed = 0
    /\ forced = FALSE
    /\ EngineIdle
    /\ ComponentsIdle

\* One second passes.
Tick ==
    /\ now < MaxTime
    /\ now' = now + 1
    /\ last' = NoCall
    /\ UNCHANGED <<config, cb, allowed, forced>>
    /\ UNCHANGED <<engineVars, componentVars>>

CheckAndAllow ==
    \E d \in 0..MaxDrift :
        /\ now + d <= MaxTime
        /\ BreakerCall("check_and_allow", <<>>, <<>>,
                       check_and_allow(cb, config, now, now + d))
        /\ now' = now + d
        /\ UNCHANGED <<config, forced>>
        /\ UNCHANGED <<engineVars, componentVars>>

RecordTradeResult ==
    \E p \in (-MaxLoss)..MaxWin, e \in 0..MaxExposure :
        /\ BreakerCall("record_trade_result", <<p>>, <<e>>,
                       record_trade_result(cb, config, p, e, now))
        /\ UNCHANGED <<config, now, forced>>
    /\ UNCHANGED <<engineVars, componentVars>>
        /\ UNCHANGED <<engineVars, componentVars>>

RecordExposure ==
    \E e \in 0..MaxExposure :
        /\ BreakerCall("record_exposure", <<>>, <<e>>,
                       record_exposure(cb, config, e, now))
        /\ UNCHANGED <<config, now, forced>>
    /\ UNCHANGED <<engineVars, componentVars>>
        /\ UNCHANGED <<engineVars, componentVars>>

ResetDailyMetrics ==
    /\ BreakerCall("reset_daily_metrics", <<>>, <<>>, reset_daily_metrics(cb))
    /\ UNCHANGED <<config, now, forced>>
    /\ UNCHANGED <<engineVars, componentVars>>

ForceClose ==
    /\ BreakerCall("force_close", <<>>, <<>>, force_close(cb))
    /\ forced' = TRUE
    /\ UNCHANGED <<config, now>>
    /\ UNCHANGED <<engineVars, componentVars>>

ForceOpen ==
    /\ BreakerCall("force_open", <<>>, <<>>, force_open(cb, now))
    /\ forced' = TRUE
    /\ UNCHANGED <<config, now>>
    /\ UNCHANGED <<engineVars, componentVars>>

NextBreaker ==
    \/ Tick
    \/ CheckAndAllow
    \/ RecordTradeResult
    \/ RecordExposure
    \/ ResetDailyMetrics
    \/ ForceClose
    \/ ForceOpen

SpecBreaker == InitBreaker /\ [][NextBreaker]_vars


\* ------------------------------------------------- claims on the breaker
\* In the action formulas below a step with last'.op = m is a call of breaker
\* method m: cb is the breaker before the call and cb' the breaker after it,
\* now the clock at the call's first read and now' the clock when it returns.

\* One of the three documented thresholds is met.
ThresholdMet(b, cfg) ==
    \/ b.daily_loss_cents >= cfg.max_daily_loss_cents
    \/ b.consecutive_losses >= cfg.max_consecutive_losses
    \/ b.total_exposure_cents >= cfg.max_exposure_cents

\* C1: without force_open/force_close, a record_trade_result or
\* record_exposure call made while CLOSED or HALF_OPEN ends with the breaker
\* OPEN if and only if one of the three thresholds is met after the call's
\* metric update.
C1_TripIffThresholdMet ==
    [][ ( /\ ~forced'
          /\ last'.op \in {"record_trade_result", "record_exposure"}
          /\ cb.state \in {CLOSED, HALF_OPEN} )
        => (cb'.state = OPEN <=> ThresholdMet(cb', config)) ]_vars

\* C6: a record_trade_result made while HALF_OPEN closes the breaker (and
\* invokes on_reset) if and only if profit_cents > 0.
C6_ClosesIffPositiveProfit ==
    [][ (last'.op = "record_trade_result" /\ cb.state = HALF_OPEN)
        => ((cb'.state = CLOSED /\ last'.on_reset) <=> last'.profit_cents[1] > 0) ]_vars

\* C7: every record_trade_result with profit_cents < 0 made while HALF_OPEN
\* leaves the breaker OPEN with trip_time set to the time of the call.
C7_LossInHalfOpenRetrips ==
    [][ ( /\ last'.op = "record_trade_result"
          /\ last'.profit_cents[1] < 0
          /\ cb.state = HALF_OPEN )
        => (cb'.state = OPEN /\ cb'.trip_time = now) ]_vars

\* C8: while the breaker is HALF_OPEN at most half_open_test_limit
\* check_and_allow calls have been permitted since it entered HALF_OPEN
\* (the call that made the transition counted), and a call made once the
\* allowance is used up raises and changes nothing.
C8_HalfOpenAllowance ==
    [][ /\ cb'.state = HALF_OPEN => allowed' <= config.half_open_test_limit
        /\ ( /\ last'.op = "check_and_allow"
             /\ cb.state = HALF_OPEN
             /\ allowed >= config.half_open_test_limit )
           => (last'.raised /\ cb' = cb) ]_vars

\* C8 witness: with a limit of 2, two calls were permitted in HALF_OPEN and
\* the third has just been refused.
C8_Witness ==
    /\ config.half_open_test_limit = 2
    /\ cb.state = HALF_OPEN
    /\ allowed = 2
    /\ last.op = "check_and_allow"
    /\ last.raised

\* The parts of C9 that do not depend on the value of cooldown_remaining:
\* only force_close and a check_and_allow made after the cooldown take the
\* breaker out of OPEN, such a check_and_allow makes it HALF_OPEN and is
\* permitted, and an earlier one raises and leaves it OPEN.
C9_Transitions ==
    /\ (cb.state = OPEN /\ cb'.state # OPEN /\ last'.op # "force_close")
       => /\ last'.op = "check_and_allow"
          /\ now - cb.trip_time >= config.cooldown_seconds
    /\ ( /\ last'.op = "check_and_allow"
         /\ cb.state = OPEN
         /\ now - cb.trip_time >= config.cooldown_seconds )
       => (cb'.state = HALF_OPEN /\ ~last'.raised)
    /\ ( /\ last'.op = "check_and_allow"
         /\ cb.state = OPEN
         /\ now - cb.trip_time < config.cooldown_seconds )
       => (last'.raised /\ cb'.state = OPEN)

\* A check_and_allow made while OPEN before the cooldown has passed.
C9_EarlyCheck ==
    /\ last'.op = "check_and_allow"
    /\ cb.state = OPEN
    /\ now - cb.trip_time < config.cooldown_seconds

C24_MetricsInEveryState ==
    [][ last'.op = "record_trade_result"
        => /\ last'.profit_cents[1] < 0
              => /\ cb'.consecutive_losses = cb.consecutive_losses + 1
                 /\ cb'.daily_loss_cents = cb.daily_loss_cents - last'.profit_cents[1]
           /\ last'.profit_cents[1] > 0
              => /\ cb'.consecutive_losses = 0
                 /\ cb'.daily_loss_cents = cb.daily_loss_cents ]_vars

\* C24 witness: a loss has just been recorded on a breaker that was OPEN
\* before the call (it is OPEN and the call did not trip it).
C24_Witness ==
    /\ last.op = "record_trade_result"
    /\ last.profit_cents = <<-1>>
    /\ last.on_trip = None
    /\ cb.state = OPEN
    /\ cb.consecutive_losses > 0
    /\ cb.daily_loss_cents > 0

\* C25: every step that takes the breaker from CLOSED or HALF_OPEN into
\* OPEN sets trip_time to the time of the call, adds exactly one to
\* trip_count and invokes on_trip with the trip reason, and trip_count
\* changes in no other step, force_open and force_close included.
C25_TripCountCountsTransitions ==
    [][ /\ (cb.state # OPEN /\ cb'.state = OPEN)
           => /\ cb'.trip_time = now
              /\ cb'.trip_count = cb.trip_count + 1
              /\ last'.on_trip # None
              /\ last'.on_trip = cb'.trip_reason
        /\ cb'.trip_count # cb.trip_count
           => (cb.state # OPEN /\ cb'.state = OPEN) ]_vars

\* ------------------------------------------------------- the engine's loops
\* Best prices of the books the strategies read.
YesBids == {4}
YesAsks == {1}
BookQuantities == {2}

\* settings.min_profit_cents and TimeBasedStrategy's min_price_diff.
min_profit_cents == 2
min_price_diff == 3

\* What OpportunityDetector.scan_all can return on those books.
Detected ==
    ( { multi_outcome_detect(a1, a2, q, q, min_profit_cents) :
            a1 \in YesAsks, a2 \in YesAsks, q \in BookQuantities }
      \cup { time_based_detect(b, a, q, q, min_profit_cents, min_price_diff) :
            b \in YesBids, a \in YesAsks, q \in BookQuantities }
      \cup { detect_implies(b, a, q, q, min_profit_cents) :
            b \in YesBids, a \in YesAsks, q \in BookQuantities } )
    \ {NoOpportunity}

InitEngine ==
    /\ config = EngineConfig
    /\ cb = CircuitBreakerInit
    /\ now = 0
    /\ last = NoCall
    /\ allowed = 0
    /\ forced = FALSE
    /\ EngineIdle
    /\ ComponentsIdle

\* The breaker can take the loss of one more execution within the caps.
Reserve(o) ==
    /\ cb.daily_loss_cents + o.total_cost_cents <= MaxDailyLoss
    /\ cb.consecutive_losses + 1 <= MaxConsecutive
    /\ cb.trip_count + 1 <= MaxTrips

\* executor.execute returned r: the engine charges the breaker and
\* _handle_opportunity returns.  b is the breaker before the charge, count
\* its allowance count.
Finish(b, count, r, o, t) ==
    LET out == engine_record(b, config, r, o, ledger, t)
    IN /\ cb' = out.cb
       /\ last' = Call("record_trade_result",
                       <<IF r.success THEN r.profit_cents ELSE -o.total_cost_cents>>,
                       <<ledger>>, out)
       /\ allowed' = AllowedAfter(count, b.state, "record_trade_result", out)
       /\ result' = r
       /\ pc' = "returned"

\* _handle_opportunity up to its first suspension: the breaker's gate, the
\* exposure gate, the executor's validation, the order group and the call
\* that submits the first leg.  per_market_ok is the verdict of the
\* per-market limits of check_trade, valid that of validate_opportunity.
HandleOpportunity ==
    /\ pc = "scan"
    /\ \E o \in Detected, d \in 0..MaxDrift, per_market_ok \in BOOLEAN, valid \in BOOLEAN :
        LET out == check_and_allow(cb, config, now, now + d)
            check_allowed == total_exposure_allowed(ledger, o, 1, config) /\ per_market_ok
            qty == handled_quantity(o)
        IN /\ now + d <= MaxTime
           /\ now' = now + d
           /\ IF out.raised \/ ~check_allowed
              THEN /\ BreakerCall("check_and_allow", <<>>, <<>>, out)
                   /\ UNCHANGED engineVars
              ELSE /\ Reserve(o)
                   /\ opp' = o
                   /\ todo' = <<>>
                   /\ canceled' = {}
                   /\ sent' = <<>>
                   /\ IF ~valid \/ qty <= 0
                      THEN /\ Finish(out.cb,
                                     AllowedAfter(allowed, cb.state, "check_and_allow", out),
                                     ExecutionResult(FALSE, 0,
                                         IF ~valid THEN "Opportunity no longer valid"
                                         ELSE "No quantity available"),
                                     o, now + d)
                           /\ group' = NoGroup
                      ELSE /\ BreakerCall("check_and_allow", <<>>, <<>>, out)
                           /\ group' = OrderGroup(SUBMITTING, <<>>, None)
                           /\ result' = NoResult
                           /\ pc' = "transmit"
           /\ UNCHANGED <<config, forced, ledger>>
           /\ UNCHANGED componentVars

\* submit_order: the order request of the next leg leaves for the venue.
TransmitLeg ==
    /\ pc = "transmit"
    /\ sent' = Append(sent, cb.state)
    /\ pc' = "response"
    /\ last' = NoCall
    /\ UNCHANGED <<config, cb, now, allowed, forced, opp, group, todo, canceled, result, ledger>>
    /\ UNCHANGED componentVars

\* submit_order returns the venue's order, with status s, for a leg that is
\* not the last one: submit_order_group goes on to the next leg.
LegAccepted ==
    /\ pc = "response"
    /\ Len(group.orders) + 1 < Len(opp.legs)
    /\ \E s \in OrderStatus :
        group' = OrderGroup(group.status, Append(group.orders, s), group.error)
    /\ pc' = "transmit"
    /\ last' = NoCall
    /\ UNCHANGED <<config, cb, now, allowed, forced, opp, todo, canceled, result, ledger, sent>>
    /\ UNCHANGED componentVars

\* submit_order returns the venue's order for the last leg: the group is
\* classified, the executor builds its result and the engine charges the
\* breaker.
LastLegAccepted ==
    /\ pc = "response"
    /\ Len(group.orders) + 1 = Len(opp.legs)
    /\ \E s \in OrderStatus :
        LET g == classify(Append(group.orders, s), Len(opp.legs))
        IN /\ group' = g
           /\ Finish(cb, allowed, execution_result(g, opp, handled_quantity(opp)), opp, now)
    /\ UNCHANGED <<config, now, forced, opp, todo, canceled, ledger, sent>>
    /\ UNCHANGED componentVars

\* submit_order raises OrderError for the current leg: the group is FAILED
\* and _cancel_group_orders starts on its RESTING orders; with none of them
\* the executor returns at once.
LegRejected ==
    /\ pc = "response"
    /\ LET g == submission_failed(group.orders)
           resting == resting_legs(group.orders)
       IN /\ group' = g
          /\ IF resting = <<>>
             THEN /\ Finish(cb, allowed, execution_result(g, opp, handled_quantity(opp)), opp, now)
                  /\ UNCHANGED <<todo, canceled>>
             ELSE /\ todo' = resting
                  /\ canceled' = {Head(resting)}
                  /\ pc' = "cancel"
                  /\ last' = NoCall
                  /\ UNCHANGED <<cb, allowed, result>>
    /\ UNCHANGED <<config, now, forced, opp, ledger, sent>>
    /\ UNCHANGED componentVars

\* cancel_order returns for the leg at the head of todo: on success the
\* order is CANCELED, on failure it is left as it was.  The next RESTING
\* order's cancel request is issued, or the executor returns.
CancelReturns ==
    /\ pc = "cancel"
    /\ \E ok \in BOOLEAN :
        LET orders == IF ok THEN [group.orders EXCEPT ![Head(todo)] = CANCELED]
                      ELSE group.orders
            g == OrderGroup(group.status, orders, group.error)
        IN /\ group' = g
           /\ todo' = Tail(todo)
           /\ IF Tail(todo) = <<>>
              THEN /\ Finish(cb, allowed, execution_result(g, opp, handled_quantity(opp)), opp, now)
                   /\ UNCHANGED canceled
              ELSE /\ canceled' = canceled \cup {Head(Tail(todo))}
                   /\ last' = NoCall
                   /\ UNCHANGED <<pc, cb, allowed, result>>
    /\ UNCHANGED <<config, now, forced, opp, ledger, sent>>
    /\ UNCHANGED componentVars

\* _handle_opportunity has returned: the scan loop goes on.
ScanNext ==
    /\ pc = "returned"
    /\ pc' = "scan"
    /\ opp' = NoOpportunity
    /\ group' = NoGroup
    /\ todo' = <<>>
    /\ canceled' = {}
    /\ result' = NoResult
    /\ sent' = <<>>
    /\ last' = NoCall
    /\ UNCHANGED <<config, cb, now, allowed, forced, ledger>>
    /\ UNCHANGED componentVars

\* _sync_loop: the positions are replaced by the venue's and their total
\* exposure e is reported to the breaker.
Sync ==
    /\ \E e \in 0..MaxLedger :
        /\ ledger' = e
        /\ BreakerCall("record_exposure", <<>>, <<e>>, record_exposure(cb, config, e, now))
    /\ UNCHANGED <<config, now, forced, pc, opp, group, todo, canceled, result, sent>>
    /\ UNCHANGED componentVars

NextEngine ==
    \/ Tick
    \/ HandleOpportunity
    \/ TransmitLeg
    \/ LegAccepted
    \/ LastLegAccepted
    \/ LegRejected
    \/ CancelReturns
    \/ ScanNext
    \/ Sync

SpecEngine == InitEngine /\ [][NextEngine]_vars

\* -------------------------------------------------- claims on the engine
\* submit_order_group has returned for the opportunity being handled.
GroupReturned == pc = "returned" /\ group # NoGroup

\* C2: in the running engine, for every interleaving of the scan loop with
\* the sync loop, each leg order is sent to the venue only in a state where
\* the breaker is not OPEN.
C2_NoLegSentWhileOpen ==
    \A i \in DOMAIN sent : sent[i] # OPEN

\* C3: after submit_order_group returns, the group's status is COMPLETE if
\* and only if every leg of the group has an order whose status is EXECUTED.
C3_CompleteIffAllExecuted ==
    GroupReturned =>
        ( group.status = COMPLETE
          <=> \A i \in 1..Len(opp.legs) :
                  i <= Len(group.orders) /\ group.orders[i] = EXECUTED )

\* A two-leg group came back COMPLETE with both orders EXECUTED.
C3_Witness ==
    /\ GroupReturned
    /\ group.status = COMPLETE
    /\ group.orders = <<EXECUTED, EXECUTED>>
    /\ result.success

\* C4: after submit_order_group returns, the group's status is PARTIAL
\* exactly when at least one but not all of its legs are EXECUTED, and
\* FAILED, with error set, exactly when no leg is EXECUTED; also when the
\* submission of a later leg raises after an earlier leg was executed.
C4_PartialAndFailedClassification ==
    GroupReturned =>
        LET filled == filled_legs(group.orders)
        IN /\ group.status = PARTIAL <=> (0 < filled /\ filled < Len(opp.legs))
           /\ group.status = FAILED <=> filled = 0
           /\ group.status = FAILED => group.error # None

\* C5: whenever an order group is classified PARTIAL, a cancel request has
\* been issued for every leg order of the group that is still RESTING
\* before the PARTIAL result is reported to the caller.
C5_PartialCancelsResting ==
    (GroupReturned /\ group.status = PARTIAL) =>
        \A i \in DOMAIN group.orders :
            group.orders[i] = RESTING => i \in canceled

\* C10: whenever executor.execute reports failure for an opportunity of any
\* type, the engine charges the breaker with a loss of the opportunity's
\* total_cost: consecutive_losses increases by one and daily_loss_cents by
\* total_cost; the failed execution never resets consecutive_losses and
\* never closes the breaker.
C10_FailureChargesTotalCost ==
    [][ (pc # "returned" /\ pc' = "returned" /\ ~result'.success) =>
            /\ cb'.consecutive_losses = cb.consecutive_losses + 1
            /\ cb'.daily_loss_cents = cb.daily_loss_cents + opp'.total_cost_cents
            /\ ~last'.on_reset
            /\ cb'.state = CLOSED => cb.state = CLOSED ]_vars

\* --------------------------------------------- the executor's validation
\* The books a market can show: at most one level a side.
BidPrices == {3, 4}
NoBidPrices == {98, 99}

Ladders(prices) ==
    {<<>>} \cup { <<OrderbookLevel(p, q)>> : p \in prices, q \in 1..MaxLevelQuantity }

Books == { Orderbook(y, n) : y \in Ladders(BidPrices), n \in Ladders(NoBidPrices) }

\* What the strategies detect on the two books obs.
DetectedOn(obs) ==
    ( (IF obs[1].no_bids # <<>> /\ obs[2].no_bids # <<>>
       THEN { multi_outcome_detect(best_yes_ask(obs[1]), best_yes_ask(obs[2]),
                                   yes_ask_quantity(obs[1]), yes_ask_quantity(obs[2]),
                                   min_profit_cents) }
       ELSE {})
      \cup
      (IF obs[1].yes_bids # <<>> /\ obs[2].no_bids # <<>>
       THEN { time_based_detect(best_yes_bid(obs[1]), best_yes_ask(obs[2]),
                                get_bid_quantity(obs[1]), yes_ask_quantity(obs[2]),
                                min_profit_cents, min_price_diff),
              detect_implies(best_yes_bid(obs[1]), best_yes_ask(obs[2]),
                             get_bid_quantity(obs[1]), yes_ask_quantity(obs[2]),
                             min_profit_cents) }
       ELSE {}) )
    \ {NoOpportunity}

InitExecutor ==
    /\ config = EngineConfig
    /\ cb = CircuitBreakerInit
    /\ now = 0
    /\ last = NoCall
    /\ allowed = 0
    /\ forced = FALSE
    /\ EngineIdle
    /\ ComponentsIdle

\* The book of one of the two markets changes.
BookMoves ==
    /\ ~execution.called
    /\ \E i \in 1..2, b \in Books : orderbooks' = [orderbooks EXCEPT ![i] = b]
    /\ UNCHANGED <<candidate, execution>>
    /\ UNCHANGED <<breakerVars, engineVars, storeVars, streamVars, clientVars, laterVars>>

\* A scan detects an opportunity on the current books.
Detect ==
    /\ candidate = NoOpportunity
    /\ candidate' \in DetectedOn(orderbooks)
    /\ UNCHANGED <<orderbooks, execution>>
    /\ UNCHANGED <<breakerVars, engineVars, storeVars, streamVars, clientVars, laterVars>>

\* execute(candidate, quantity, validate = True) up to the submission.
ExecuteValidated ==
    /\ candidate # NoOpportunity
    /\ ~execution.called
    /\ \E quantity \in 0..MaxRequest :
        execution' = execute_validated(candidate, quantity, orderbooks, min_profit_cents)
    /\ UNCHANGED <<orderbooks, candidate>>
    /\ UNCHANGED <<breakerVars, engineVars, storeVars, streamVars, clientVars, laterVars>>

\* The execution is over.
ExecutionOver ==
    /\ execution.called
    /\ candidate' = NoOpportunity
    /\ execution' = NoExecution
    /\ UNCHANGED orderbooks
    /\ UNCHANGED <<breakerVars, engineVars, storeVars, streamVars, clientVars, laterVars>>

NextExecutor ==
    \/ BookMoves
    \/ Detect
    \/ ExecuteValidated
    \/ ExecutionOver

SpecExecutor == InitExecutor /\ [][NextExecutor]_vars

\* C11: with validation enabled, the executor submits the legs only if, on
\* the books read immediately before submission, every BUY leg's implied
\* ask is at most its committed price, every SELL leg's bid is at least its
\* committed price, and every leg's quoted level holds at least the quantity
\* the executor submits for that leg; otherwise no order is sent.
C11_SubmitsOnlyValidated ==
    (execution.called /\ execution.submitted > 0) =>
        \A i \in DOMAIN candidate.legs :
            LET leg == candidate.legs[i]
                ob == orderbooks[i]
            IN IF leg.action = BUY
               THEN /\ ob.no_bids # <<>>
                    /\ best_yes_ask(ob) <= leg.price
                    /\ yes_ask_quantity(ob) >= execution.submitted
               ELSE /\ ob.yes_bids # <<>>
                    /\ best_yes_bid(ob) >= leg.price
                    /\ get_bid_quantity(ob) >= execution.submitted

\* ------------------------------------------ the book store called directly
\* Ladders in wire form, as a venue response can list them: empty, one
\* level, two levels in descending or ascending order, one price twice.
WirePrices == {1, 2}
WireLadders ==
    { <<>>, <<<<2, 1>>>>, <<<<1, 1>>>>,
      <<<<2, 1>>, <<1, 1>>>>, <<<<1, 1>>, <<2, 1>>>>, <<<<1, 1>>, <<1, 1>>>> }

InitStore ==
    /\ config = EngineConfig
    /\ cb = CircuitBreakerInit
    /\ now = 0
    /\ last = NoCall
    /\ allowed = 0
    /\ forced = FALSE
    /\ EngineIdle
    /\ ComponentsIdle

\* await update_snapshot(ticker, orderbook) with a parsed snapshot.
UpdateSnapshot ==
    /\ \E t \in Tickers, yes \in WireLadders, no \in WireLadders :
        /\ manager' = update_snapshot(manager, t, parse_orderbook(yes, no))
        /\ lastop' = [op |-> "update_snapshot", ticker |-> t,
                      orderbook |-> parse_orderbook(yes, no)]
    /\ UNCHANGED <<breakerVars, engineVars, executorVars, streamVars, clientVars, laterVars>>

\* await apply_delta(ticker, side, price, quantity).
ApplyDelta ==
    /\ \E t \in Tickers, side \in {YES, NO}, p \in WirePrices, q \in 0..MaxDeltaQuantity :
        /\ manager' = apply_delta(manager, t, side, p, q)
        /\ lastop' = [op |-> "apply_delta", ticker |-> t, side |-> side,
                      price |-> p, quantity |-> q]
    /\ UNCHANGED <<breakerVars, engineVars, executorVars, streamVars, clientVars, laterVars>>

NextStore ==
    \/ UpdateSnapshot
    \/ ApplyDelta

SpecStore == InitStore /\ [][NextStore]_vars

\* The prices of a ladder are strictly descending.
StrictlyDescending(levels) ==
    \A i \in 1..(Len(levels) - 1) : levels[i].price > levels[i + 1].price

\* C12: after any sequence of install_snapshot and apply_delta calls, every
\* stored order book has both ladders sorted by price strictly descending,
\* each price at most once per ladder.
C12_LaddersSortedUnique ==
    \A t \in Tickers :
        manager.orderbooks[t] # NoBook =>
            /\ StrictlyDescending(manager.orderbooks[t].yes_bids)
            /\ StrictlyDescending(manager.orderbooks[t].no_bids)

\* The ladder of a side of a book, and the levels of a ladder off price p.
LadderOf(ob, side) == IF side = YES THEN ob.yes_bids ELSE ob.no_bids
LevelsOff(levels, p) == {levels[i] : i \in {k \in DOMAIN levels : levels[k].price # p}}

\* C13: apply_delta(t, side, p, q) on a stored ticker sets the level
\* absolutely: afterwards the ladder of that side holds quantity exactly q
\* at price p when q > 0 and no level at price p when q = 0, while every
\* other level of that ladder, the opposite ladder of t and the books of
\* all other tickers are unchanged.
C13_DeltaSetsLevel ==
    [][ (lastop'.op = "apply_delta" /\ manager.orderbooks[lastop'.ticker] # NoBook) =>
            LET t == lastop'.ticker
                p == lastop'.price
                q == lastop'.quantity
                other == IF lastop'.side = YES THEN NO ELSE YES
                before == LadderOf(manager.orderbooks[t], lastop'.side)
                after == LadderOf(manager'.orderbooks[t], lastop'.side)
            IN /\ q > 0 => /\ \E i \in DOMAIN after : after[i].price = p
                           /\ \A i \in DOMAIN after :
                                  after[i].price = p => after[i].quantity = q
               /\ q = 0 => \A i \in DOMAIN after : after[i].price # p
               /\ LevelsOff(after, p) = LevelsOff(before, p)
               /\ LadderOf(manager'.orderbooks[t], other)
                      = LadderOf(manager.orderbooks[t], other)
               /\ \A u \in Tickers \ {t} :
                      manager'.orderbooks[u] = manager.orderbooks[u] ]_vars

\* C31: an apply_delta for a ticker that has no stored book is dropped: no
\* book is created, no stored book changes and no subscriber is notified;
\* and whatever deltas were dropped before it, an update_snapshot stores
\* exactly the book it was given.
C31_EarlyDeltaDropped ==
    [][ /\ (lastop'.op = "apply_delta" /\ manager.orderbooks[lastop'.ticker] = NoBook)
           => /\ manager'.orderbooks = manager.orderbooks
              /\ manager'.notice = NoNotice
              /\ ~manager'.lock
        /\ lastop'.op = "update_snapshot"
           => manager'.orderbooks[lastop'.ticker] = lastop'.orderbook ]_vars

\* C31 witness: a delta that adds a level has just been dropped for a
\* ticker without a book, while the other ticker has one.
C31_Witness ==
    /\ lastop.op = "apply_delta"
    /\ lastop.quantity > 0
    /\ manager.orderbooks[lastop.ticker] = NoBook
    /\ \E u \in Tickers : manager.orderbooks[u] # NoBook
    /\ manager.notice = NoNotice

\* C14: subscriber callbacks of the book store are invoked only after the
\* store's mutex has been released, for update_snapshot and for apply_delta.
C14_CallbacksOutsideLock ==
    manager.notice # NoNotice => ~manager.notice.locked

\* ------------------------------------------------------- the stream loop
\* What the stream sends for the one market it is subscribed to.
StreamTickers == {"A"}
StreamSnapshots ==
    { parse_orderbook(yes, <<>>) :
        yes \in {<<>>, <<<<2, 1>>>>, <<<<2, 1>>, <<1, 1>>>>} }
StreamDeltas ==
    { [side |-> side, price |-> p, delta |-> q] :
        side \in {YES, NO}, p \in WirePrices, q \in 0..MaxDeltaQuantity }

InitStream ==
    /\ config = EngineConfig
    /\ cb = CircuitBreakerInit
    /\ now = 0
    /\ last = NoCall
    /\ allowed = 0
    /\ forced = FALSE
    /\ EngineIdle
    /\ ComponentsIdle

\* The ready queue and the arrival-order store once the handlers have
\* scheduled the tasks new.
scheduled(queue, new) == queue \o new
longest(queue, new, longestBefore) ==
    IF queue = <<>> THEN Len(new) ELSE Max(longestBefore, Len(queue) + Len(new))

\* _message_loop receives an orderbook_snapshot message.
SnapshotMessage ==
    /\ \E t \in StreamTickers, ob \in StreamSnapshots :
        LET new == <<SnapshotTask(t, ob)>>
        IN /\ Len(tasks) + Len(new) <= MaxPending
           /\ tasks' = scheduled(tasks, new)
           /\ applied' = run_all(applied, new)
           /\ backlog' = longest(tasks, new, backlog)
    /\ UNCHANGED <<manager, lastop>>
    /\ UNCHANGED <<breakerVars, engineVars, executorVars, clientVars, laterVars>>

\* _message_loop receives an orderbook_delta message with one or two deltas.
DeltaMessage ==
    /\ \E t \in StreamTickers, d1 \in StreamDeltas, d2 \in StreamDeltas, n \in 1..2 :
        LET new == delta_tasks(t, SubSeq(<<d1, d2>>, 1, n))
        IN /\ Len(tasks) + Len(new) <= MaxPending
           /\ tasks' = scheduled(tasks, new)
           /\ applied' = run_all(applied, new)
           /\ backlog' = longest(tasks, new, backlog)
    /\ UNCHANGED <<manager, lastop>>
    /\ UNCHANGED <<breakerVars, engineVars, executorVars, clientVars, laterVars>>

\* The event loop runs the next ready task to its end (the lock is free and
\* the coroutine has no other suspension point).
RunTask ==
    /\ tasks # <<>>
    /\ LET i == next_task(tasks)
       IN /\ manager' = run_task(manager, tasks[i])
          /\ lastop' = [op |-> tasks[i].op, ticker |-> tasks[i].ticker]
          /\ tasks' = SubSeq(tasks, 1, i - 1) \o SubSeq(tasks, i + 1, Len(tasks))
    /\ UNCHANGED <<applied, backlog>>
    /\ UNCHANGED <<breakerVars, engineVars, executorVars, clientVars, laterVars>>

NextStream ==
    \/ SnapshotMessage
    \/ DeltaMessage
    \/ RunTask

SpecStream == InitStream /\ [][NextStream]_vars

\* C15: for snapshot and delta messages received in the order m1, m2, ...,
\* the store's mutations take effect in that order although each is started
\* as a separate task: the stored books, once the pending tasks have run,
\* are those of applying the messages one after another in arrival order.
C15_ArrivalOrder ==
    run_all(manager, tasks).orderbooks = applied.orderbooks

\* A snapshot and a delta were pending together, both have run, and the
\* book holds the snapshot's level and the delta's.
C15_Witness ==
    /\ tasks = <<>>
    /\ backlog >= 2
    /\ lastop.op = "apply_delta"
    /\ manager.orderbooks["A"] # NoBook
    /\ manager.orderbooks["A"].yes_bids
           = <<OrderbookLevel(2, 1), OrderbookLevel(1, 1)>>
    /\ manager.orderbooks["A"].no_bids = <<OrderbookLevel(1, 1)>>

\* ------------------------------------------------- the stream client's run
\* The markets the engine subscribes to.
ClientTickers == {"A", "B", "C"}

InitClient ==
    /\ config = EngineConfig
    /\ cb = CircuitBreakerInit
    /\ now = 0
    /\ last = NoCall
    /\ allowed = 0
    /\ forced = FALSE
    /\ EngineIdle
    /\ ComponentsIdle

\* run() calls connect().
Connect ==
    /\ client.pc = "connecting"
    /\ \E connected \in BOOLEAN, sendOk \in BOOLEAN, closes \in BOOLEAN :
        /\ client' = connect(client, connected, sendOk, closes)
        /\ request' = IF client.ws # "open" /\ connected
                      THEN resubscribe_request(client, sendOk) ELSE {}
    /\ client'.reconnect_count <= MaxReconnects
    /\ UNCHANGED held
    /\ UNCHANGED <<breakerVars, engineVars, executorVars, storeVars, streamVars, laterVars>>

\* subscribe_orderbook(tickers) called on the open socket; a failing send
\* raises to the caller.
SubscribeOrderbook ==
    /\ client.ws = "open"
    /\ client.pc = "listening"
    /\ \E tickers \in (SUBSET ClientTickers) \ {{}}, sendOk \in BOOLEAN :
        /\ client' = IF sendOk
                     THEN [client EXCEPT !.subscribed = client.subscribed \cup tickers]
                     ELSE client
        /\ request' = IF sendOk THEN tickers ELSE {}
    /\ UNCHANGED held
    /\ UNCHANGED <<breakerVars, engineVars, executorVars, storeVars, streamVars, laterVars>>

\* The connection is lost while _message_loop listens: the loop raises
\* ConnectionClosed and run() calls _reconnect, or (clean) the iteration
\* ends and run() goes straight back to connect().
ConnectionLost ==
    /\ client.pc = "listening"
    /\ \E clean \in BOOLEAN :
        client' = IF clean
                  THEN [client EXCEPT !.ws = "closed", !.pc = "connecting"]
                  ELSE reconnect([client EXCEPT !.ws = "closed"])
    /\ client'.reconnect_count <= MaxReconnects
    /\ held' = client.subscribed
    /\ request' = {}
    /\ UNCHANGED <<breakerVars, engineVars, executorVars, storeVars, streamVars, laterVars>>

NextClient ==
    \/ Connect
    \/ SubscribeOrderbook
    \/ ConnectionLost

SpecClient == InitClient /\ [][NextClient]_vars

\* C16: after any sequence of disconnects and reconnect attempts, including
\* attempts in which the connection or the resubscribe send fails, the next
\* successful reconnect sends a subscribe request for exactly the ticker set
\* the client held before the first disconnect, and the client's
\* subscribed-ticker set then equals that set.
C16_ResubscribesHeldTickers ==
    [][ (client.pc = "connecting" /\ client'.pc = "listening") =>
            /\ request' = held
            /\ client'.subscribed = held ]_vars

\* ------------------------------------------------------ the engine's loops
otherThanShutdown ==
    <<breakerVars, engineVars, executorVars, storeVars, streamVars, clientVars,
      transportVars, gateVars, newerVars>>

InitShutdown ==
    /\ config = EngineConfig
    /\ cb = CircuitBreakerInit
    /\ now = 0
    /\ last = NoCall
    /\ allowed = 0
    /\ forced = FALSE
    /\ EngineIdle
    /\ ComponentsIdle

\* _initial_sync returns and start() gathers its four coroutines, or it
\* raises and start() goes to its finally clause, which calls stop().
InitialSyncOver ==
    /\ bot.start = "initial_sync"
    /\ \E ok \in BOOLEAN :
        IF ok
        THEN /\ bot' = [gather(bot).bot EXCEPT !.start = "gather"]
             /\ loops' = gather(bot).loops
        ELSE /\ bot' = [stop(bot) EXCEPT !.start = "stopping"]
             /\ UNCHANGED loops
    /\ UNCHANGED otherThanShutdown

\* SIGINT or SIGTERM: the handler's task runs _handle_signal.
Signal ==
    /\ bot.start \in {"initial_sync", "gather"}
    /\ bot' = handle_signal(bot)
    /\ UNCHANGED loops
    /\ UNCHANGED otherThanShutdown

\* Some other task calls stop() while start() is running.
StopCalled ==
    /\ bot.start \in {"initial_sync", "gather"}
    /\ bot.stop = "idle"
    /\ bot' = [stop(bot) EXCEPT !.stop = "closing"]
    /\ UNCHANGED loops
    /\ UNCHANGED otherThanShutdown

\* That stop() gets through its closes and returns.
StopReturns ==
    /\ bot.stop = "closing"
    /\ bot' = [bot EXCEPT !.stop = "done"]
    /\ UNCHANGED loops
    /\ UNCHANGED otherThanShutdown

\* websockets.connect returns a socket or raises.
WsConnectOver ==
    /\ loops["websocket"] = "connecting"
    /\ \E connected \in BOOLEAN :
        IF connected
        THEN /\ bot' = [bot EXCEPT !.ws = "open"]
             /\ loops' = [loops EXCEPT !["websocket"] = "listening"]
        ELSE /\ bot' = run_except(bot).bot
             /\ loops' = [loops EXCEPT !["websocket"] = run_except(bot).pc]
    /\ UNCHANGED otherThanShutdown

\* The venue or the network drops the open connection.
WsConnectionDrops ==
    /\ bot.ws = "open"
    /\ bot' = [bot EXCEPT !.ws = "closed"]
    /\ UNCHANGED loops
    /\ UNCHANGED otherThanShutdown

\* _message_loop sees its socket closed: the iteration ends, or it raises
\* ConnectionClosed.
WsListenOver ==
    /\ loops["websocket"] = "listening"
    /\ bot.ws # "open"
    /\ \E clean \in BOOLEAN :
        LET next == IF clean THEN run(bot) ELSE run_except(bot)
        IN  /\ bot' = next.bot
            /\ loops' = [loops EXCEPT !["websocket"] = next.pc]
    /\ UNCHANGED otherThanShutdown

\* _reconnect's sleep ends.
WsBackoffOver ==
    /\ loops["websocket"] = "backoff"
    /\ bot' = run(bot).bot
    /\ loops' = [loops EXCEPT !["websocket"] = run(bot).pc]
    /\ UNCHANGED otherThanShutdown

\* _scan_for_opportunities returns or raises; the loop sleeps.
ScanOver ==
    /\ loops["scan"] = "scanning"
    /\ loops' = [loops EXCEPT !["scan"] = "sleeping"]
    /\ UNCHANGED bot
    /\ UNCHANGED otherThanShutdown

\* The scan loop's sleep ends.
ScanWakes ==
    /\ loops["scan"] = "sleeping"
    /\ loops' = [loops EXCEPT !["scan"] = scan_loop(bot)]
    /\ UNCHANGED bot
    /\ UNCHANGED otherThanShutdown

\* The sync loop's sleep ends; it syncs whatever _running says.
SyncWakes ==
    /\ loops["sync"] = "sleeping"
    /\ loops' = [loops EXCEPT !["sync"] = "syncing"]
    /\ UNCHANGED bot
    /\ UNCHANGED otherThanShutdown

\* The sync returns or raises.
SyncOver ==
    /\ loops["sync"] = "syncing"
    /\ loops' = [loops EXCEPT !["sync"] = sync_loop(bot)]
    /\ UNCHANGED bot
    /\ UNCHANGED otherThanShutdown

\* The event's wait() returns.
WaitReturns ==
    /\ loops["wait"] = "waiting"
    /\ bot.shutdown_event
    /\ loops' = [loops EXCEPT !["wait"] = "done"]
    /\ UNCHANGED bot
    /\ UNCHANGED otherThanShutdown

\* All four coroutines have returned: gather returns and start()'s finally
\* clause calls stop().
GatherReturns ==
    /\ bot.start = "gather"
    /\ \A l \in Loops : loops[l] = "done"
    /\ bot' = [stop(bot) EXCEPT !.start = "stopping"]
    /\ UNCHANGED loops
    /\ UNCHANGED otherThanShutdown

\* start()'s own stop() returns, and so does start().
StartReturns ==
    /\ bot.start = "stopping"
    /\ bot' = [bot EXCEPT !.start = "returned"]
    /\ UNCHANGED loops
    /\ UNCHANGED otherThanShutdown

NextShutdown ==
    \/ InitialSyncOver
    \/ Signal
    \/ StopCalled
    \/ StopReturns
    \/ WsConnectionDrops
    \/ WsConnectOver
    \/ WsListenOver
    \/ WsBackoffOver
    \/ ScanOver
    \/ ScanWakes
    \/ SyncWakes
    \/ SyncOver
    \/ WaitReturns
    \/ GatherReturns
    \/ StartReturns

\* Every await of the engine's own coroutines returns in the end: sleeps
\* end, requests return or raise, a closed socket ends the message loop.
\* Signals, stop() calls and connection drops may never happen.
SpecShutdown ==
    /\ InitShutdown
    /\ [][NextShutdown]_vars
    /\ WF_vars(InitialSyncOver)
    /\ WF_vars(StopReturns)
    /\ WF_vars(WsConnectOver)
    /\ WF_vars(WsListenOver)
    /\ WF_vars(WsBackoffOver)
    /\ WF_vars(ScanOver)
    /\ WF_vars(ScanWakes)
    /\ WF_vars(SyncWakes)
    /\ WF_vars(SyncOver)
    /\ WF_vars(WaitReturns)
    /\ WF_vars(GatherReturns)
    /\ WF_vars(StartReturns)

\* C17: once the shutdown event is set, by a signal handler or by stop(), the
\* stream loop, the scan loop and the sync loop all exit and start()
\* eventually returns.
C17_ShutdownReturns ==
    bot.shutdown_event ~> (bot.start = "returned")

\* ---------------------------------------------------- one transport request
otherThanTransport ==
    <<breakerVars, engineVars, executorVars, storeVars, streamVars, clientVars,
      shutdownVars, gateVars, newerVars>>

\* The statuses the venue answers with.
Statuses == {200, 400, 401, 403, 404, 429, 500}

\* The Retry-After headers of a 429.
RetryAfters == {<<>>, <<0>>, <<5>>}

\* The responses of the venue.
Responses ==
    {Response(status, insufficient, retry_after) :
        status \in Statuses, insufficient \in BOOLEAN, retry_after \in RetryAfters}

InitTransport ==
    /\ config = EngineConfig
    /\ cb = CircuitBreakerInit
    /\ now = 0
    /\ last = NoCall
    /\ allowed = 0
    /\ forced = FALSE
    /\ EngineIdle
    /\ ComponentsIdle

\* _request is called; it gets to its first send.
RequestCalled ==
    /\ transfer.pc \in {"idle", "returned", "raised"}
    /\ \E retry \in BOOLEAN :
        transfer' = Request("attempting", retry, <<>>, <<>>, None)
    /\ UNCHANGED otherThanTransport

\* The venue answers and _handle_response returns or raises.
ResponseArrives ==
    /\ transfer.pc = "attempting"
    /\ \E response \in Responses :
        transfer' = attempt_over(transfer, handle_response(response),
                                 response.retry_after)
    /\ UNCHANGED otherThanTransport

\* The send raises aiohttp.ClientError or asyncio.TimeoutError.
NetworkFails ==
    /\ transfer.pc = "attempting"
    /\ \E error \in {ClientError, TimeoutError} :
        transfer' = attempt_over(transfer, error, <<>>)
    /\ UNCHANGED otherThanTransport

\* The sleep before the next attempt ends.
SleepOver ==
    /\ transfer.pc = "sleeping"
    /\ transfer' = next_attempt(transfer)
    /\ UNCHANGED otherThanTransport

NextTransport ==
    \/ RequestCalled
    \/ ResponseArrives
    \/ NetworkFails
    \/ SleepOver

SpecTransport == InitTransport /\ [][NextTransport]_vars

\* The errors after which _request may go round again.
Retryable == {RateLimitError, ClientError, TimeoutError}

\* C18: one request makes at most 3 attempts; every attempt but the last met
\* a RateLimitError or a network/timeout error; an attempt that meets any
\* other error ends the request at once with that error; and a third
\* retryable failure ends it with a final KalshiError and no further attempt.
C18_RetryPolicy ==
    LET n == Len(transfer.met)
    IN  /\ n <= 3
        /\ \A i \in 1..(n - 1) : transfer.met[i] \in Retryable
        /\ (n > 0 /\ transfer.met[n] \notin Retryable \cup {None}) =>
              /\ transfer.pc = "raised"
              /\ transfer.raised = transfer.met[n]
        /\ (n = 3 /\ transfer.met[n] \in Retryable) =>
              /\ transfer.pc \in {"sleeping", "raised"}
              /\ transfer.pc = "raised" => transfer.raised = KalshiError

\* Three retryable failures in a row have ended in the final raise.
C18_Witness ==
    /\ transfer.pc = "raised"
    /\ Len(transfer.met) = 3
    /\ transfer.met[3] \in Retryable
    /\ transfer.raised = KalshiError

\* ------------------------------------------------------- the exposure gate
otherThanGate ==
    <<breakerVars, engineVars, executorVars, storeVars, streamVars, clientVars,
      shutdownVars, transportVars, newerVars>>

\* The net positions and the exposures the venue reports for a market that
\* is held.
NetPositions == {-1, 1, 2, 3}
MarketExposures == {1, 2}

\* The positions the venue reports for one market.
VenuePositions ==
    {Position(0, 0)} \cup
    {Position(p, e) : p \in NetPositions, e \in MarketExposures}

\* The prices of the legs.
LegPrices == {1, 2}

\* The opportunities the detectors hand over: one leg in each market, with
\* the total cost of buying both (multi-outcome) or of the spread between
\* the leg bought and the leg sold (time-based).
Trades ==
    {Trade(<<Leg("A", p1), Leg("B", p2)>>, p1 + p2) : p1 \in LegPrices, p2 \in LegPrices}
    \cup
    {Trade(<<Leg("A", p1), Leg("B", p2)>>, Max(p2 - p1, 0)) :
        p1 \in LegPrices, p2 \in LegPrices}

InitGate ==
    /\ config = EngineConfig
    /\ cb = CircuitBreakerInit
    /\ now = 0
    /\ last = NoCall
    /\ allowed = 0
    /\ forced = FALSE
    /\ EngineIdle
    /\ ComponentsIdle

\* sync_positions replaces the cached positions by the venue's.
SyncPositions ==
    /\ positions' \in [Tickers -> VenuePositions]
    /\ UNCHANGED verdict
    /\ UNCHANGED otherThanGate

\* check_trade(opportunity, quantity) on the cached positions.
CheckTrade ==
    /\ \E opportunity \in Trades, quantity \in 1..MaxTradeQuantity :
        verdict' = [called |-> TRUE, opportunity |-> opportunity,
                    quantity |-> quantity,
                    check |-> check_trade(positions, ExposureLimits,
                                          opportunity, quantity)]
    /\ UNCHANGED positions
    /\ UNCHANGED otherThanGate

NextGate ==
    \/ SyncPositions
    \/ CheckTrade

SpecGate == InitGate /\ [][NextGate]_vars

\* The total-exposure limit holds after quantity q of the trade.
TotalFits(ps, o, q) ==
    get_total_exposure(ps) + o.total_cost_cents * q
        <= ExposureLimits.max_total_exposure_cents

\* The per-market position limit holds for every leg.
PositionFits(ps, o, q) ==
    \A i \in 1..Len(o.legs) :
        Abs(ps[o.legs[i].ticker].position) + q
            <= ExposureLimits.max_position_per_market

\* The per-market exposure limit holds for every leg.
MarketFits(ps, o, q) ==
    \A i \in 1..Len(o.legs) :
        ps[o.legs[i].ticker].market_exposure + o.legs[i].price * q
            <= ExposureLimits.max_exposure_per_market_cents

AllFit(ps, o, q) == TotalFits(ps, o, q) /\ PositionFits(ps, o, q) /\ MarketFits(ps, o, q)

\* C19: check_trade(opportunity, q) returns allowed = true if and only if,
\* on the cached positions, the total exposure, every leg's position and
\* every leg's market exposure stay within their limits after the trade.
C19_AllowedIffAllFit ==
    [][ (verdict'.called /\ positions' = positions) =>
            (verdict'.check.allowed <=>
                AllFit(positions, verdict'.opportunity, verdict'.quantity)) ]_vars

\* check_trade has allowed a trade on a ledger that holds positions in both
\* of the trade's markets.
C19_Witness ==
    /\ verdict.called
    /\ verdict.check.allowed
    /\ \A t \in Tickers : positions[t].position # 0
    /\ verdict.check.current_exposure_cents = get_total_exposure(positions)

\* C20: when check_trade denies a trade, the max_allowed_quantity it returns
\* is the largest q >= 0 for which the total exposure, every leg's position
\* and every leg's market exposure all stay within their limits (0 when no
\* quantity does); it is never negative.
C20_MaxAllowedQuantity ==
    [][ (verdict'.called /\ positions' = positions /\ ~verdict'.check.allowed) =>
            LET m == verdict'.check.max_allowed_quantity
                o == verdict'.opportunity
            IN  /\ m >= 0
                /\ m = 0 \/ AllFit(positions, o, m)
                /\ ~AllFit(positions, o, m + 1) ]_vars

\* ------------------------------------------------- the strategies' detect
otherThanDetector ==
    <<breakerVars, engineVars, executorVars, storeVars, streamVars, clientVars,
      shutdownVars, transportVars, gateVars, executionVars, rankingVars, readerVars,
      finalVars>>

\* The quantities a level can hold (0: the level is kept with nothing left).
LevelQuantities == {0, 1, 2}

\* The ladders of one side: none, one level, or two levels of which the
\* second is at the highest price (the first at any price, that one too).
LaddersOf(prices) ==
    {<<>>}
    \cup { <<OrderbookLevel(p, q)>> : p \in prices, q \in LevelQuantities }
    \cup { <<OrderbookLevel(p1, 1), OrderbookLevel(p2, 2)>> :
               p1 \in prices, p2 \in {p \in prices : \A r \in prices : r <= p} }

\* The books of the markets of one event: NO bids at 66, 68 and 80 cents,
\* that is implied YES asks of 34, 32 and 20 cents.
EventBooks == { Orderbook(<<>>, n) : n \in LaddersOf({66, 68, 80}) }

\* The books of a pair of related markets: YES bids at 35 and 45 cents, NO
\* bids at 50 and 66 and 68 cents (implied YES asks of 50, 34 and 32).
PairBooks ==
    { Orderbook(y, n) : y \in LaddersOf({35, 45}), n \in LaddersOf({50, 66, 68}) }

\* Market.expiration_time: None or a time.
Expirations == {<<>>, <<1>>, <<2>>}

\* The dict of the books given for the markets 1..n, from a list that holds
\* NoBook for a market without one.
books_of(given) ==
    [i \in {j \in DOMAIN given : given[j] # NoBook} |-> given[i]]

\* One call of one strategy is made on books drawn from those sets.
InitDetector ==
    /\ config = EngineConfig
    /\ cb = CircuitBreakerInit
    /\ now = 0
    /\ last = NoCall
    /\ allowed = 0
    /\ forced = FALSE
    /\ EngineIdle
    /\ ComponentsIdle

\* scan_event calls MultiOutcomeStrategy.detect on the markets of an event
\* with the books the store holds for them.
DetectMultiOutcome ==
    /\ scan.strategy = None
    /\ \E n \in 0..(max_markets + 1) :
           \E given \in [1..n -> EventBooks \cup {NoBook}] :
               scan' = Scan("multioutcome", n, books_of(given), <<>>,
                            MultiOutcomeStrategy_detect(n, books_of(given), min_profit_cents))
    /\ UNCHANGED otherThanDetector

\* scan_event calls TimeBasedStrategy.detect on a pair of markets.
DetectTimeBased ==
    /\ scan.strategy = None
    /\ \E earlier \in Expirations, later \in Expirations :
           \E ob1 \in PairBooks, ob2 \in PairBooks :
               scan' = Scan("time_based", 2, <<ob1, ob2>>, <<earlier, later>>,
                            TimeBasedStrategy_detect(earlier, later, ob1, ob2,
                                                     min_profit_cents, min_price_diff))
    /\ UNCHANGED otherThanDetector

\* scan_market_pair calls CorrelatedStrategy.detect_implies.
DetectImplies ==
    /\ scan.strategy = None
    /\ \E ob1 \in PairBooks, ob2 \in PairBooks :
           scan' = Scan("implies", 2, <<ob1, ob2>>, <<>>,
                        CorrelatedStrategy_detect_implies(ob1, ob2, min_profit_cents))
    /\ UNCHANGED otherThanDetector

\* scan_market_pair calls CorrelatedStrategy.detect_excludes.
DetectExcludes ==
    /\ scan.strategy = None
    /\ \E ob1 \in PairBooks, ob2 \in PairBooks :
           scan' = Scan("excludes", 2, <<ob1, ob2>>, <<>>,
                        CorrelatedStrategy_detect_excludes(ob1, ob2, min_profit_cents))
    /\ UNCHANGED otherThanDetector

\* scan_market_pair calls CorrelatedStrategy.detect_equivalent.
DetectEquivalent ==
    /\ scan.strategy = None
    /\ \E ob1 \in PairBooks, ob2 \in PairBooks :
           scan' = Scan("equivalent", 2, <<ob1, ob2>>, <<>>,
                        CorrelatedStrategy_detect_equivalent(ob1, ob2, min_profit_cents))
    /\ UNCHANGED otherThanDetector

NextDetector ==
    \/ DetectMultiOutcome
    \/ DetectTimeBased
    \/ DetectImplies
    \/ DetectExcludes
    \/ DetectEquivalent

SpecDetector == InitDetector /\ [][NextDetector]_vars

\* ------------------------------------------------ claims on the strategies
\* The latest call emitted an opportunity.
Emitted == scan.emitted # NoOpportunity

\* C26: every opportunity a strategy emits (multi-outcome, temporal,
\* IMPLIES, EXCLUDES, EQUIVALENT) has net_profit = gross_profit - est_fees,
\* gross_profit = guaranteed_return - total_cost, and
\* net_profit >= min_profit_cents.
C26_ProfitIdentities ==
    Emitted =>
        /\ scan.emitted.net_profit_cents
               = scan.emitted.gross_profit_cents - scan.emitted.estimated_fees_cents
        /\ scan.emitted.net_profit_cents
               = scan.emitted.guaranteed_return_cents - scan.emitted.total_cost_cents
                 - scan.emitted.estimated_fees_cents
        /\ scan.emitted.net_profit_cents >= min_profit_cents

\* C26 witness: detect_equivalent emitted an opportunity that sells the
\* second market and buys the first, with a fee estimated.
C26_Witness ==
    /\ Emitted
    /\ scan.strategy = "equivalent"
    /\ scan.emitted.legs[1].ticker = 2
    /\ scan.emitted.estimated_fees_cents > 0

\* The implied YES asks of the books given for the markets 1..n.
ImpliedAsks == [i \in 1..scan.n |-> best_yes_ask(scan.orderbooks[i])]

\* The condition under which the multi-outcome strategy is to emit: the
\* number of markets is within bounds, every market has a book with an
\* implied YES ask and quantity at it, the asks sum to less than 100 and
\* what is left of 100 after the asks and the fees is at least
\* min_profit_cents.
MultiOutcomeCondition ==
    /\ min_markets <= scan.n
    /\ scan.n <= max_markets
    /\ \A i \in 1..scan.n :
           /\ i \in DOMAIN scan.orderbooks
           /\ scan.orderbooks[i].no_bids # <<>>
           /\ yes_ask_quantity(scan.orderbooks[i]) > 0
    /\ SumOf(ImpliedAsks) < 100
    /\ 100 - SumOf(ImpliedAsks) - calculate_total_fees(buy_legs(ImpliedAsks))
           >= min_profit_cents

\* C27: MultiOutcomeStrategy.detect emits an opportunity if and only if
\* MultiOutcomeCondition holds, and the opportunity then has exactly one BUY
\* leg per market, at that market's implied YES ask, total_cost equal to the
\* sum of the leg prices and gross_profit = 100 - total_cost.
C27_MultiOutcomeEmission ==
    scan.strategy = "multioutcome" =>
        /\ Emitted <=> MultiOutcomeCondition
        /\ Emitted =>
              /\ Len(scan.emitted.legs) = scan.n
              /\ \A i \in 1..scan.n :
                     /\ scan.emitted.legs[i].ticker = i
                     /\ scan.emitted.legs[i].action = BUY
                     /\ scan.emitted.legs[i].price = ImpliedAsks[i]
              /\ scan.emitted.total_cost_cents
                     = SumOf([i \in 1..scan.n |-> scan.emitted.legs[i].price])
              /\ scan.emitted.gross_profit_cents = 100 - scan.emitted.total_cost_cents

\* C27 witness: an opportunity on max_markets markets whose asks differ.
C27_Witness ==
    /\ scan.strategy = "multioutcome"
    /\ Emitted
    /\ scan.n = max_markets
    /\ scan.emitted.legs[1].price # scan.emitted.legs[2].price

\* The quantity resting at the level a leg trades against: the best NO-bid
\* level of its market for a BUY, the best YES-bid level for a SELL.
LevelQuantity(leg) ==
    IF leg.action = BUY
    THEN yes_ask_quantity(scan.orderbooks[leg.ticker])
    ELSE get_bid_quantity(scan.orderbooks[leg.ticker])

\* C28: the max_quantity of every emitted opportunity is the least, over
\* its legs, of the quantity resting at the leg's tradable price level, and
\* it is at least 1: nothing is emitted when that least quantity is 0.
C28_MaxQuantityIsLeastLevel ==
    Emitted =>
        /\ \A i \in DOMAIN scan.emitted.legs :
               scan.emitted.max_quantity <= LevelQuantity(scan.emitted.legs[i])
        /\ \E i \in DOMAIN scan.emitted.legs :
               scan.emitted.max_quantity = LevelQuantity(scan.emitted.legs[i])
        /\ scan.emitted.max_quantity >= 1

\* C28 witness: a multi-outcome opportunity whose first leg has more resting
\* at its level than the opportunity's max_quantity.
C28_Witness ==
    /\ scan.strategy = "multioutcome"
    /\ Emitted
    /\ LevelQuantity(scan.emitted.legs[1]) > scan.emitted.max_quantity

\* --------------------------------------------------- get_best_opportunity
otherThanRanking ==
    <<breakerVars, engineVars, executorVars, storeVars, streamVars, clientVars,
      shutdownVars, transportVars, gateVars, executionVars, detectorVars, readerVars,
      finalVars>>

\* The opportunities a caller can list: a loss, break-even or a profit of 1
\* or 2 cents, a confidence of 0.8 or 0.9, 1 or 3 contracts.
NetProfits == {-1, 0, 1, 2}
Confidences == {80, 90}
MaxQuantities == {1, 3}
Listed ==
    { Ranked(p, c, q) : p \in NetProfits, c \in Confidences, q \in MaxQuantities }

\* The lists of at most n opportunities.
RECURSIVE ListsUpTo(_)
ListsUpTo(n) ==
    IF n = 0 THEN {<<>>}
    ELSE ListsUpTo(n - 1)
         \cup { Append(l, o) : l \in {k \in ListsUpTo(n - 1) : Len(k) = n - 1},
                                o \in Listed }

\* One call of get_best_opportunity is made on a list drawn from those.
InitRanking ==
    /\ config = EngineConfig
    /\ cb = CircuitBreakerInit
    /\ now = 0
    /\ last = NoCall
    /\ allowed = 0
    /\ forced = FALSE
    /\ EngineIdle
    /\ ComponentsIdle

GetBestOpportunity ==
    /\ ~ranking.called
    /\ \E opportunities \in ListsUpTo(MaxListed) :
           ranking' = [called |-> TRUE, opportunities |-> opportunities,
                       best |-> get_best_opportunity(opportunities)]
    /\ UNCHANGED otherThanRanking

NextRanking ==
    \/ GetBestOpportunity

SpecRanking == InitRanking /\ [][NextRanking]_vars

\* ---------------------------------------- claims on get_best_opportunity
\* The profitable opportunities of the list.
Profitable ==
    { ranking.opportunities[i] : i \in { j \in DOMAIN ranking.opportunities :
          ranking.opportunities[j].net_profit_cents > 0 } }

\* a comes before b in the lexicographic order on
\* (net_profit, confidence, max_quantity).
LexGreater(a, b) ==
    \/ a.net_profit_cents > b.net_profit_cents
    \/ /\ a.net_profit_cents = b.net_profit_cents
       /\ a.confidence > b.confidence
    \/ /\ a.net_profit_cents = b.net_profit_cents
       /\ a.confidence = b.confidence
       /\ a.max_quantity > b.max_quantity

\* C29: get_best_opportunity returns None if and only if no opportunity of
\* the list has net_profit > 0, and otherwise one of the profitable
\* opportunities than which none is greater in the lexicographic order on
\* (net_profit, confidence, max_quantity).
C29_BestIsLexicographicMaximum ==
    ranking.called =>
        /\ ranking.best = NoOpportunity <=> Profitable = {}
        /\ ranking.best # NoOpportunity
              => /\ ranking.best \in Profitable
                 /\ \A o \in Profitable : ~LexGreater(o, ranking.best)

\* ------------------------------------------------ a reader of the book store
otherThanReader ==
    <<breakerVars, engineVars, executorVars, streamVars, clientVars,
      shutdownVars, transportVars, gateVars, executionVars, detectorVars, rankingVars,
      finalVars>>

\* The snapshots the venue sends while a reader holds a book (YES bids
\* only), and the deltas: a YES bid at 1 appears, the YES bid at 2 goes.
SnapshotLadders == { <<>>, <<<<2, 1>>>> }
Deltas == { <<YES, 1, 1>>, <<YES, 2, 0>> }

InitReader ==
    /\ config = EngineConfig
    /\ cb = CircuitBreakerInit
    /\ now = 0
    /\ last = NoCall
    /\ allowed = 0
    /\ forced = FALSE
    /\ EngineIdle
    /\ ComponentsIdle

\* A reader calls get_orderbook(ticker) and keeps what it returns.
GetOrderbook ==
    /\ \E t \in Tickers :
           /\ manager.orderbooks[t] # NoBook
           /\ view' = get_orderbook(manager, t)
    /\ UNCHANGED <<storeVars, otherThanReader>>

\* A reader calls get_all_orderbooks() and keeps the book of one ticker.
GetAllOrderbooks ==
    /\ \E t \in Tickers :
           /\ manager.orderbooks[t] # NoBook
           /\ view' = get_all_orderbooks(manager, t)
    /\ UNCHANGED <<storeVars, otherThanReader>>

\* await update_snapshot(ticker, orderbook) while the reader holds its book.
SnapshotInstalled ==
    /\ \E t \in Tickers, yes \in SnapshotLadders :
           /\ manager' = update_snapshot(manager, t, parse_orderbook(yes, <<>>))
           /\ lastop' = [op |-> "update_snapshot", ticker |-> t]
           /\ view' = view_after_snapshot(view, t)
    /\ UNCHANGED otherThanReader

\* await apply_delta(ticker, side, price, quantity) while the reader holds
\* its book.
DeltaApplied ==
    /\ \E t \in Tickers, d \in Deltas :
           /\ manager' = apply_delta(manager, t, d[1], d[2], d[3])
           /\ lastop' = [op |-> "apply_delta", ticker |-> t, side |-> d[1],
                         price |-> d[2], quantity |-> d[3]]
           /\ view' = view_after_delta(view, manager', t)
    /\ UNCHANGED otherThanReader

NextReader ==
    \/ GetOrderbook
    \/ GetAllOrderbooks
    \/ SnapshotInstalled
    \/ DeltaApplied

SpecReader == InitReader /\ [][NextReader]_vars

\* ------------------------------------------------- claims on the reader
\* C30: the book a reader obtained from get_orderbook or get_all_orderbooks
\* is a point-in-time view: whatever apply_delta and update_snapshot calls
\* follow, the ladders of the value the reader holds stay as they were when
\* it was handed out.
C30_ReaderViewIsImmutable ==
    view # NoView => view.current = view.taken

\* --------------------------------------------------- get_acquisition_cost
\* The numbers of contracts a caller asks the cost of.
QuoteQuantities == {1, 2, 3}

\* One call of get_acquisition_cost is made on a book of PairBooks.
InitQuote ==
    /\ config = EngineConfig
    /\ cb = CircuitBreakerInit
    /\ now = 0
    /\ last = NoCall
    /\ allowed = 0
    /\ forced = FALSE
    /\ EngineIdle
    /\ ComponentsIdle

GetAcquisitionCost ==
    /\ ~quote.called
    /\ \E ob \in PairBooks, side \in {"yes", "no"}, q \in QuoteQuantities :
           quote' = [called |-> TRUE, orderbook |-> ob, side |-> side, quantity |-> q,
                     cost |-> get_acquisition_cost(ob, side, q)]
    /\ UNCHANGED otherThanQuote

NextQuote ==
    \/ GetAcquisitionCost

SpecQuote == InitQuote /\ [][NextQuote]_vars

\* -------------------------------------- claims on get_acquisition_cost
\* The ladder whose best level stands behind the implied ask of the side
\* asked for: the NO bids for YES, the YES bids for NO.
Behind == IF quote.side = "yes" THEN quote.orderbook.no_bids ELSE quote.orderbook.yes_bids

\* The best implied ask of the side asked for and the quantity at it.
ImpliedAsk == 100 - best_price(Behind)
ImpliedAskQuantity == quantity_at(Behind, best_price(Behind))

\* C32: get_acquisition_cost(side, quantity) returns
\* best_implied_ask * quantity when the level behind the best implied ask
\* holds at least quantity contracts, and None when there is no implied ask
\* or that level holds fewer than quantity contracts.
C32_AcquisitionCost ==
    quote.called =>
        IF Behind = <<>> THEN quote.cost = <<>>
        ELSE IF ImpliedAskQuantity >= quote.quantity
             THEN quote.cost = <<ImpliedAsk * quote.quantity>>
             ELSE quote.cost = <<>>

\* ------------------------------------------------ execution notifications
\* The most calls of execute followed.
MaxExecuted == 3

\* How one call of execute ends: the opportunity is no longer valid, no
\* quantity is left, the order group comes back COMPLETE, PARTIAL or FAILED,
\* or creating or submitting it raises OrderError.
Endings == {"invalid", "no_quantity", "COMPLETE", "PARTIAL", "FAILED", "OrderError"}

\* The ExecutionResult of each ending.
ExecutionResultOf(ending) ==
    [success |-> ending = "COMPLETE",
     error |-> CASE ending = "invalid" -> "Opportunity no longer valid"
                 [] ending = "no_quantity" -> "No quantity available"
                 [] ending = "COMPLETE" -> None
                 [] ending = "PARTIAL" -> "Partial fill"
                 [] ending = "FAILED" -> "Execution failed"
                 [] OTHER -> "OrderError"]

\* ArbitrageBotEngine._on_execution_complete, the one callback registered
\* with the executor: a success counts a filled order and asks for the
\* trade_executed alert, a failure counts a failed order.
on_execution_complete(s, r) ==
    IF r.success
    THEN [s EXCEPT !.orders_filled = @ + 1, !.alerts = Append(@, "trade_executed")]
    ELSE [s EXCEPT !.orders_failed = @ + 1]

\* Executor._execute_internal from the validation on: the two early returns
\* hand the result back at once; every other ending appends the result to
\* _execution_history and notifies the callbacks.
execute_internal(s, ending) ==
    LET r == ExecutionResultOf(ending)
        t == [s EXCEPT !.returned = Append(@, r)]
    IN  IF ending \in {"invalid", "no_quantity"}
        THEN t
        ELSE on_execution_complete([t EXCEPT !.history = Append(@, r)], r)

InitSink ==
    /\ config = EngineConfig
    /\ cb = CircuitBreakerInit
    /\ now = 0
    /\ last = NoCall
    /\ allowed = 0
    /\ forced = FALSE
    /\ EngineIdle
    /\ ComponentsIdle

\* One call of execute runs to its end.
ExecuteEnds ==
    /\ Len(sink.returned) < MaxExecuted
    /\ \E ending \in Endings : sink' = execute_internal(sink, ending)
    /\ UNCHANGED otherThanSink

NextSink ==
    \/ ExecuteEnds

SpecSink == InitSink /\ [][NextSink]_vars

\* ------------------------------------------- claims on the notifications
\* How many of the elements of a sequence satisfy being equal to x, and how
\* many results of a sequence are failures.
TimesIn(seq, x) == Cardinality({i \in DOMAIN seq : seq[i] = x})
Failures(seq) == Cardinality({i \in DOMAIN seq : ~seq[i].success})

\* C33: every execution that ends with success = false has had a
\* trade_failed alert asked of the AlertManager by the time execute returns.
C33_FailureEmitsTradeFailed ==
    TimesIn(sink.alerts, "trade_failed") = Failures(sink.returned)

\* ------------------------------------------------------ signature payload
\* Strings are sequences of characters. The first position of s, from
\* position from on, that holds one of chars; Len(s) + 1 when there is none
\* (str.find with -1 replaced by the end).
find(s, chars, from) ==
    LET hits == {i \in from..Len(s) : s[i] \in chars}
    IN  IF hits = {} THEN Len(s) + 1 ELSE CHOOSE i \in hits : \A j \in hits : i <= j

\* The last position of s that holds c; 0 when there is none (str.rfind).
rfind(s, c) ==
    LET hits == {i \in DOMAIN s : s[i] = c}
    IN  IF hits = {} THEN 0 ELSE CHOOSE i \in hits : \A j \in hits : i >= j

Letters == {"a", "b", "c", "d", "e", "g", "k", "m", "o", "t", "s", "p",
            "A", "B", "C", "D", "E", "G", "K", "M", "O", "T", "S", "P"}
scheme_chars == Letters \cup {"+", "-", "."}

\* str.upper on one character and on a string.
upper_char(c) ==
    CASE c = "a" -> "A" [] c = "b" -> "B" [] c = "c" -> "C" [] c = "d" -> "D"
      [] c = "e" -> "E" [] c = "g" -> "G" [] c = "k" -> "K" [] c = "m" -> "M"
      [] c = "o" -> "O" [] c = "t" -> "T" [] c = "s" -> "S" [] c = "p" -> "P"
      [] OTHER -> c
upper(s) == [i \in DOMAIN s |-> upper_char(s[i])]

\* str(n) for n >= 0: the decimal digits of n.
Digit(d) ==
    CASE d = 0 -> "0" [] d = 1 -> "1" [] d = 2 -> "2" [] d = 3 -> "3" [] d = 4 -> "4"
      [] d = 5 -> "5" [] d = 6 -> "6" [] d = 7 -> "7" [] d = 8 -> "8" [] OTHER -> "9"
RECURSIVE str(_)
str(n) == IF n < 10 THEN <<Digit(n)>> ELSE str(n \div 10) \o <<Digit(n % 10)>>

\* urllib.parse.urlparse(url).path: urlsplit takes a scheme off the front
\* (letters and + - . before the first colon, starting with a letter), then
\* a network location (after a leading //, up to the next / ? or #), then
\* the fragment (from the first #) and the query (from the first ?);
\* urlparse then takes the parameters (from the first ; of the last path
\* segment) off what is left.
urlparse_path(url) ==
    LET colon == find(url, {":"}, 1)
        hasScheme == /\ 1 < colon /\ colon <= Len(url)
                     /\ url[1] \in Letters
                     /\ \A i \in 1..(colon - 1) : url[i] \in scheme_chars
        u1 == IF hasScheme THEN SubSeq(url, colon + 1, Len(url)) ELSE url
        hasNetloc == Len(u1) >= 2 /\ u1[1] = "/" /\ u1[2] = "/"
        u2 == IF hasNetloc
              THEN SubSeq(u1, find(u1, {"/", "?", "#"}, 3), Len(u1))
              ELSE u1
        u3 == SubSeq(u2, 1, find(u2, {"#"}, 1) - 1)
        u4 == SubSeq(u3, 1, find(u3, {"?"}, 1) - 1)
        semi == find(u4, {";"}, IF rfind(u4, "/") = 0 THEN 1 ELSE rfind(u4, "/"))
    IN  SubSeq(u4, 1, semi - 1)

\* _create_signature_payload signing the whole of what it is given.
create_signature_payload_keeping_query(timestamp, method, path) ==
    str(timestamp) \o upper(method) \o path

\* KalshiAuthenticator._create_signature_payload.
create_signature_payload(timestamp, method, path) ==
    str(timestamp) \o upper(method) \o urlparse_path(path)

\* The longest query string appended.
MaxQuery == 2

\* The timestamps, in milliseconds, the methods and the paths signed: the
\* paths have the shapes the client builds, a slash before each segment.
Timestamps == {7, 1730}
Methods == {<<"G", "E", "T">>, <<"g", "e", "t">>, <<"P", "o", "s", "t">>}
Paths == {<<"/", "m">>, <<"/", "m", "/", "t">>, <<"/", "m", "/", "t", "/", "o">>}

\* The characters of the query strings, and the query strings.
QueryChars == {"k", "=", "?", "#", ";", "/", ":"}
Queries == UNION {[1..n -> QueryChars] : n \in 0..MaxQuery}

\* The path with the query string appended; <<>>: nothing is appended.
with_query(path, query) == IF query = <<>> THEN path ELSE path \o <<"?">> \o query[1]

InitSigning ==
    /\ config = EngineConfig
    /\ cb = CircuitBreakerInit
    /\ now = 0
    /\ last = NoCall
    /\ allowed = 0
    /\ forced = FALSE
    /\ EngineIdle
    /\ ComponentsIdle

CreateSignaturePayload ==
    /\ ~signing.called
    /\ \E ts \in Timestamps, method \in Methods, path \in Paths,
          query \in {<<>>} \cup {<<q>> : q \in Queries} :
           signing' = [called |-> TRUE, timestamp |-> ts, method |-> method, path |-> path,
                       query |-> query,
                       payload |-> create_signature_payload(ts, method, with_query(path, query))]
    /\ UNCHANGED otherThanSigning

NextSigning ==
    \/ CreateSignaturePayload

SpecSigning == InitSigning /\ [][NextSigning]_vars

\* -------------------------------------- claims on the signature payload
\* C34: the payload built for a path with any query string appended equals
\* the payload built for the bare path, which is the timestamp followed by
\* the upper-case method followed by the path without its query.
C34_PayloadIgnoresQuery ==
    signing.called =>
        /\ signing.payload
             = create_signature_payload(signing.timestamp, signing.method, signing.path)
        /\ signing.payload
             = str(signing.timestamp) \o upper(signing.method) \o signing.path

\* A lower-case method was signed for a path whose query string holds what
\* would start a fragment, a parameter and a segment of a path.
C34_Witness ==
    /\ signing.called
    /\ signing.query # <<>>
    /\ Len(signing.query[1]) = MaxQuery
    /\ signing.query[1][1] \in {"#", ";", "/"}
    /\ signing.method = <<"g", "e", "t">>
    /\ signing.timestamp >= 10

\* --------------------------------------------------------- token buckets
\* The latest reading of the monotonic clock followed.
MaxClock == 3

\* RateLimiter._refill at time t.
refill(b, t) ==
    [b EXCEPT !.tokens = IF b.bucket_size < @ + (t - b.last_update) * b.tokens_per_second
                         THEN b.bucket_size
                         ELSE @ + (t - b.last_update) * b.tokens_per_second,
              !.last_update = t]

\* The first tick at which asyncio.sleep(deficit / tokens_per_second) can
\* be over, counted from the tick it starts at.
sleep_ticks(b, tokens) ==
    ((tokens - b.tokens) + b.tokens_per_second - 1) \div b.tokens_per_second

\* asyncio.Lock.acquire taking the lock whoever holds it or waits for it.
lock_free_always(b) ==
    TRUE

\* asyncio.Lock.acquire takes the lock without suspending when nobody holds
\* it and nobody waits for it.
lock_free(b) ==
    ~b.locked /\ b.waiters = <<>>

\* asyncio.Lock.release: the lock is free; the first waiter, if any, has
\* been woken and takes the lock when it runs.
lock_release(b) ==
    [b EXCEPT !.locked = FALSE]

\* RateLimiter.acquire from the moment caller c holds the lock of bucket b,
\* at time t: the bucket is refilled; with enough tokens they are deducted
\* and the lock released, otherwise the caller sleeps holding the lock.
\* The bucket and the caller afterwards.
acquire_holding(b, c, tokens, which, t) ==
    LET r == [refill(b, t) EXCEPT !.locked = TRUE]
    IN  IF r.tokens < tokens
        THEN <<r, [pc |-> "sleeping", limiter |-> which, tokens |-> tokens,
                   wake |-> t + sleep_ticks(r, tokens)]>>
        ELSE <<lock_release([r EXCEPT !.tokens = @ - tokens]), [pc |-> "idle"]>>

InitLimiters ==
    /\ config = EngineConfig
    /\ cb = CircuitBreakerInit
    /\ now = 0
    /\ last = NoCall
    /\ allowed = 0
    /\ forced = FALSE
    /\ EngineIdle
    /\ ComponentsIdle

\* A caller calls acquire(tokens) on one of the two buckets, as
\* acquire_read, acquire_write and get_limiter(method).acquire do.
Acquire(c) ==
    /\ limiters.callers[c].pc = "idle"
    /\ \E which \in {"read", "write"} :
       \E tokens \in 1..limiters[which].bucket_size :
           LET b == limiters[which]
               after == acquire_holding(b, c, tokens, which, limiters.clock)
           IN  IF lock_free(b)
               THEN limiters' = [limiters EXCEPT ![which] = after[1],
                                                 !.callers[c] = after[2],
                                                 !.latest = which]
               ELSE limiters' = [limiters EXCEPT
                                    ![which].waiters = Append(@, c),
                                    !.callers[c] = [pc |-> "queued", limiter |-> which,
                                                    tokens |-> tokens],
                                    !.latest = which]
    /\ UNCHANGED otherThanLimiters

\* The waiter that release woke runs: it takes the lock and goes on.
LockGranted(c) ==
    /\ limiters.callers[c].pc = "queued"
    /\ LET which == limiters.callers[c].limiter
           b == limiters[which]
           after == acquire_holding([b EXCEPT !.waiters = Tail(@)], c,
                                    limiters.callers[c].tokens, which, limiters.clock)
       IN  /\ ~b.locked
           /\ Head(b.waiters) = c
           /\ limiters' = [limiters EXCEPT ![which] = after[1],
                                           !.callers[c] = after[2],
                                           !.latest = which]
    /\ UNCHANGED otherThanLimiters

\* The sleep of a caller is over: the bucket is refilled, the tokens are
\* deducted and the lock is released.
AcquireSleepOver(c) ==
    /\ limiters.callers[c].pc = "sleeping"
    /\ limiters.clock >= limiters.callers[c].wake
    /\ LET which == limiters.callers[c].limiter
           r == refill(limiters[which], limiters.clock)
       IN  limiters' = [limiters EXCEPT
                           ![which] = lock_release([r EXCEPT !.tokens = @ - limiters.callers[c].tokens]),
                           !.callers[c] = [pc |-> "idle"],
                           !.latest = which]
    /\ UNCHANGED otherThanLimiters

\* available_tokens is read on one of the buckets.
AvailableTokens ==
    /\ \E which \in {"read", "write"} :
           limiters' = [limiters EXCEPT ![which] = refill(@, limiters.clock),
                                        !.latest = which]
    /\ UNCHANGED otherThanLimiters

\* The monotonic clock advances.
ClockTick ==
    /\ limiters.clock < MaxClock
    /\ limiters' = [limiters EXCEPT !.clock = @ + 1, !.latest = None]
    /\ UNCHANGED otherThanLimiters

NextLimiters ==
    \/ \E c \in Callers : Acquire(c)
    \/ \E c \in Callers : LockGranted(c)
    \/ \E c \in Callers : AcquireSleepOver(c)
    \/ AvailableTokens
    \/ ClockTick

SpecLimiters == InitLimiters /\ [][NextLimiters]_vars

\* ------------------------------------------ claims on the token buckets
\* The callers that hold the lock of a bucket and have not yet deducted.
Sleeping(l, which) ==
    {c \in Callers : l.callers[c].pc = "sleeping" /\ l.callers[c].limiter = which}

Other(which) == IF which = "read" THEN "write" ELSE "read"

\* C35: however the callers of acquire(n), 1 <= n <= capacity, interleave,
\* the tokens of a bucket are never below 0 or above its capacity; callers
\* are granted one at a time: at most one caller is past the lock of a
\* bucket, and while it has not deducted no tokens leave the bucket; and a
\* step on one bucket leaves the other bucket as it was.
C35_BucketsBoundedSerialIsolated ==
    /\ [](\A which \in {"read", "write"} :
             /\ 0 <= limiters[which].tokens
             /\ limiters[which].tokens <= limiters[which].bucket_size
             /\ Cardinality(Sleeping(limiters, which)) <= 1)
    /\ [][\A which \in {"read", "write"} :
             /\ (Sleeping(limiters, which) \cap Sleeping(limiters', which) # {})
                    => limiters'[which].tokens >= limiters[which].tokens
             /\ limiters'.latest = which
                    => limiters'[Other(which)] = limiters[Other(which)]]_vars

\* A caller sleeps holding the lock of the write bucket, another waits for
\* that lock, and a third has taken a token of the read bucket meanwhile.
C35_Witness ==
    /\ Sleeping(limiters, "write") # {}
    /\ limiters.write.waiters # <<>>
    /\ limiters.write.tokens = 0
    /\ limiters.read.tokens < limiters.read.bucket_size
    /\ limiters.latest = "read"

\* ------------------------------------------------------- scan_market_pair
\* fnmatch.fnmatch of a ticker against a pattern of literal characters, ?
\* (any one character) and * (any run of characters).
RECURSIVE fnmatch(_, _)
fnmatch(name, pat) ==
    IF pat = <<>> THEN name = <<>>
    ELSE IF Head(pat) = "*"
         THEN fnmatch(name, Tail(pat)) \/ (name # <<>> /\ fnmatch(Tail(name), pat))
         ELSE /\ name # <<>>
              /\ Head(pat) = "?" \/ Head(pat) = Head(name)
              /\ fnmatch(Tail(name), Tail(pat))

\* CorrelatedStrategy.DEFAULT_RULES, with C for -CHAMPIONSHIP-, P for
\* -PLAYOFFS-, W for -PRIMARY-WIN- and N for -NOMINATION-.
DEFAULT_RULES ==
    << [market_a_pattern |-> <<"*", "C", "*">>, market_b_pattern |-> <<"*", "P", "*">>,
        correlation |-> "implies"],
       [market_a_pattern |-> <<"*", "W", "*">>, market_b_pattern |-> <<"*", "N", "*">>,
        correlation |-> "implies"] >>

\* Whether a rule matches the pair in the order given, or reversed.
matches(rule, market_a, market_b) ==
    \/ fnmatch(market_a, rule.market_a_pattern) /\ fnmatch(market_b, rule.market_b_pattern)
    \/ fnmatch(market_b, rule.market_a_pattern) /\ fnmatch(market_a, rule.market_b_pattern)

\* CorrelatedStrategy.match_rule: the first rule that matches the pair in
\* either order; <<>>: none.
match_rule(rules, market_a, market_b) ==
    LET hits == {i \in DOMAIN rules : matches(rules[i], market_a, market_b)}
    IN  IF hits = {} THEN <<>>
        ELSE <<rules[CHOOSE i \in hits : \A j \in hits : i <= j]>>

\* ArbitrageDetector.scan_market_pair: the strategy of the matched rule's
\* correlation is called on the two markets in the order they were given.
\* The list of opportunities returned.
scan_market_pair(rules, market_a, market_b, orderbook_a, orderbook_b, min_profit) ==
    LET rule == match_rule(rules, market_a, market_b)
        found == IF rule = <<>> THEN NoOpportunity
                 ELSE IF rule[1].correlation = "implies"
                 THEN CorrelatedStrategy_detect_implies(orderbook_a, orderbook_b, min_profit)
                 ELSE IF rule[1].correlation = "excludes"
                 THEN CorrelatedStrategy_detect_excludes(orderbook_a, orderbook_b, min_profit)
                 ELSE CorrelatedStrategy_detect_equivalent(orderbook_a, orderbook_b, min_profit)
    IN  IF found = NoOpportunity THEN <<>>
        ELSE <<[found EXCEPT !.legs = [i \in DOMAIN found.legs |->
                   [found.legs[i] EXCEPT !.ticker = IF @ = 1 THEN market_a ELSE market_b]]]>>

\* The tickers of the markets scanned: a championship market, a playoffs
\* market, a nomination market and one that no rule names.
PairTickers == {<<"K", "C", "1">>, <<"K", "P", "1">>, <<"K", "N", "1">>, <<"K", "X", "1">>}

\* The books of the two markets scanned: a YES bid or none, a NO bid or none.
ScanBooks ==
    { Orderbook(y, n) :
        y \in {<<>>} \cup { <<OrderbookLevel(p, 1)>> : p \in {35, 45} },
        n \in {<<>>} \cup { <<OrderbookLevel(p, 1)>> : p \in {50, 68} } }

InitPairScan ==
    /\ config = EngineConfig
    /\ cb = CircuitBreakerInit
    /\ now = 0
    /\ last = NoCall
    /\ allowed = 0
    /\ forced = FALSE
    /\ EngineIdle
    /\ ComponentsIdle

ScanMarketPair ==
    /\ ~pairscan.called
    /\ \E market_a \in PairTickers, market_b \in PairTickers :
       \E orderbook_a \in ScanBooks, orderbook_b \in ScanBooks :
           /\ market_a # market_b
           /\ pairscan' = [called |-> TRUE, market_a |-> market_a, market_b |-> market_b,
                           orderbook_a |-> orderbook_a, orderbook_b |-> orderbook_b,
                           rule |-> match_rule(DEFAULT_RULES, market_a, market_b),
                           opportunities |->
                               scan_market_pair(DEFAULT_RULES, market_a, market_b,
                                                orderbook_a, orderbook_b, min_profit_cents)]
    /\ UNCHANGED otherThanPairscan

NextPairScan ==
    \/ ScanMarketPair

SpecPairScan == InitPairScan /\ [][NextPairScan]_vars

\* ------------------------------------------- claims on scan_market_pair
\* Whether the first market given is the one that matches the antecedent
\* pattern of the rule matched.
GivenInRuleOrder ==
    /\ fnmatch(pairscan.market_a, pairscan.rule[1].market_a_pattern)
    /\ fnmatch(pairscan.market_b, pairscan.rule[1].market_b_pattern)

\* The antecedent and the consequent of the pair, and their books.
Antecedent == IF GivenInRuleOrder THEN pairscan.market_a ELSE pairscan.market_b
Consequent == IF GivenInRuleOrder THEN pairscan.market_b ELSE pairscan.market_a
AntecedentBook == IF GivenInRuleOrder THEN pairscan.orderbook_a ELSE pairscan.orderbook_b
ConsequentBook == IF GivenInRuleOrder THEN pairscan.orderbook_b ELSE pairscan.orderbook_a

\* C36: for a pair matched by an IMPLIES rule in either argument order,
\* scan_market_pair emits an opportunity only when the antecedent's best
\* YES bid is above the consequent's implied YES ask, and the legs of the
\* opportunity sell YES on the antecedent and buy YES on the consequent.
C36_ImpliesInEitherOrder ==
    ( /\ pairscan.called
      /\ pairscan.rule # <<>>
      /\ pairscan.opportunities # <<>> )
    => /\ pairscan.rule[1].correlation = "implies"
       /\ AntecedentBook.yes_bids # <<>>
       /\ ConsequentBook.no_bids # <<>>
       /\ best_yes_bid(AntecedentBook) > best_yes_ask(ConsequentBook)
       /\ LET legs == pairscan.opportunities[1].legs
          IN  /\ Len(legs) = 2
              /\ legs[1].action = SELL /\ legs[1].ticker = Antecedent
              /\ legs[2].action = BUY /\ legs[2].ticker = Consequent

\* ------------------------------------------------- the engine kept running
\* The scan loop keeps finding opportunities and handling them, the venue
\* answers every order and cancel request, and the sync loop keeps syncing:
\* each step of the engine that stays possible is eventually taken.  The
\* clock is left free.
SpecEngineRunning ==
    /\ InitEngine
    /\ [][NextEngine]_vars
    /\ WF_vars(HandleOpportunity)
    /\ WF_vars(TransmitLeg)
    /\ WF_vars(LegAccepted)
    /\ WF_vars(LastLegAccepted)
    /\ WF_vars(LegRejected)
    /\ WF_vars(CancelReturns)
    /\ WF_vars(ScanNext)
    /\ WF_vars(Sync)

\* C37: in the running engine a breaker that enters HALF_OPEN eventually
\* leaves it, to CLOSED or to OPEN.
C37_HalfOpenEventuallyLeft ==
    (cb.state = HALF_OPEN) ~> (cb.state # HALF_OPEN)

\* ------------------------------------------------ exposure between syncs
\* The most trades executed between two syncs of the positions.
MaxUnsynced == 3

\* The venue's positions after quantity contracts of each leg were filled.
filled_at_venue(venue, opportunity, quantity) ==
    [t \in DOMAIN venue |->
        LET mine == {i \in DOMAIN opportunity.legs : opportunity.legs[i].ticker = t}
        IN  IF mine = {} THEN venue[t]
            ELSE LET leg == opportunity.legs[CHOOSE i \in mine : TRUE]
                 IN  Position(venue[t].position + quantity,
                              venue[t].market_exposure + leg.price * quantity)]

\* _handle_opportunity from the exposure gate on, for an opportunity with
\* max_quantity contracts available whose execution ends as success says:
\* check_trade is asked about its default quantity on the cached positions,
\* a refusal returns, otherwise min(max_quantity, max_allowed_quantity)
\* contracts are executed.  Nothing is written to the cached positions.
handle_opportunity(a, limits, opportunity, max_quantity, success) ==
    LET check == check_trade(a.positions, limits, opportunity, 1)
        quantity == execute_quantity(Min(max_quantity, check.max_allowed_quantity),
                                     [max_quantity |-> max_quantity])
    IN  IF ~check.allowed \/ quantity <= 0 \/ ~success THEN a
        ELSE [a EXCEPT !.venue = filled_at_venue(@, opportunity, quantity),
                       !.executed = @ + opportunity.total_cost_cents * quantity,
                       !.trades = @ + 1]

InitAccount ==
    /\ config = EngineConfig
    /\ cb = CircuitBreakerInit
    /\ now = 0
    /\ last = NoCall
    /\ allowed = 0
    /\ forced = FALSE
    /\ EngineIdle
    /\ ComponentsIdle

\* The scan loop hands an opportunity to _handle_opportunity, which runs to
\* its end.
OpportunityHandled ==
    /\ account.trades < MaxUnsynced
    /\ \E opportunity \in Trades, max_quantity \in 1..MaxTradeQuantity, success \in BOOLEAN :
           account' = handle_opportunity(account, ExposureLimits, opportunity,
                                         max_quantity, success)
    /\ UNCHANGED otherThanAccount

\* _sync_loop: sync_positions replaces the cached positions by the venue's.
PositionsSynced ==
    /\ account' = [account EXCEPT !.positions = account.venue, !.executed = 0,
                                  !.trades = 0]
    /\ UNCHANGED otherThanAccount

\* A market settles: the venue holds no position in it any more.
MarketSettles ==
    /\ \E t \in Tickers :
           /\ account.venue[t] # Position(0, 0)
           /\ account' = [account EXCEPT !.venue[t] = Position(0, 0)]
    /\ UNCHANGED otherThanAccount

NextAccount ==
    \/ OpportunityHandled
    \/ PositionsSynced
    \/ MarketSettles

SpecAccount == InitAccount /\ [][NextAccount]_vars

\* ------------------------------------- claims on exposure between syncs
\* C38: at every moment the total exposure of the positions as last synced
\* plus the cost of the trades executed since that sync is at most
\* max_total_exposure_cents.
C38_ExposureWithinLimitBetweenSyncs ==
    get_total_exposure(account.positions) + account.executed
        <= ExposureLimits.max_total_exposure_cents

\* ------------------------------------------------- quantity of an execution
\* OrderManager.create_order_group: the quantity of each leg of the group.
create_order_group(opportunity, quantity) ==
    [i \in 1..opportunity.legs |-> Min(quantity, opportunity.max_quantity)]

\* Executor.execute(opportunity, quantity) on an opportunity of so many
\* legs; quantity is <<>> for None.  valid is the verdict of
\* validate_opportunity, rejected_at the leg whose order request raises
\* OrderError (0: none does), complete whether every order comes back
\* EXECUTED.  The count of each order request sent, and the result's success.
execute(opportunity, quantity, valid, rejected_at, complete) ==
    LET qty == execute_quantity(IF quantity = <<>> THEN 0 ELSE quantity[1], opportunity)
        legs == create_order_group(opportunity, qty)
    IN  IF ~valid \/ qty <= 0
        THEN [counts |-> <<>>, success |-> FALSE]
        ELSE IF rejected_at = 0
        THEN [counts |-> legs, success |-> complete]
        ELSE [counts |-> SubSeq(legs, 1, rejected_at), success |-> FALSE]

\* The quantities execute is called with: None, or a number.
ExecuteQuantities == {<<>>} \cup {<<q>> : q \in (0 - 1)..(MaxTradeQuantity + 1)}

InitOrder ==
    /\ config = EngineConfig
    /\ cb = CircuitBreakerInit
    /\ now = 0
    /\ last = NoCall
    /\ allowed = 0
    /\ forced = FALSE
    /\ EngineIdle
    /\ ComponentsIdle

\* One call of execute on an opportunity of two or three legs.
ExecuteCalled ==
    /\ ~order.called
    /\ \E n \in min_markets..max_markets, max_quantity \in 1..MaxTradeQuantity,
          quantity \in ExecuteQuantities, valid \in BOOLEAN, rejected_at \in 0..max_markets,
          complete \in BOOLEAN :
           /\ rejected_at <= n
           /\ LET opportunity == [legs |-> n, max_quantity |-> max_quantity]
                  out == execute(opportunity, quantity, valid, rejected_at, complete)
              IN  order' = [called |-> TRUE, opportunity |-> opportunity,
                            quantity |-> quantity, valid |-> valid,
                            counts |-> out.counts, success |-> out.success]
    /\ UNCHANGED otherThanOrder

NextOrder ==
    \/ ExecuteCalled

SpecOrder == InitOrder /\ [][NextOrder]_vars

\* ------------------------------------ claims on the quantity of an execution
\* Every order request sent has the count n.
EveryCountIs(n) == \A i \in DOMAIN order.counts : order.counts[i] = n

\* C39: execute(opportunity, q) submits every leg with the count
\* min(q, max_quantity) when q >= 1, submits no order and returns a failed
\* result when q <= 0, and uses max_quantity only when q is None.
C39_QuantityOfExecution ==
    order.called =>
        IF order.quantity = <<>>
        THEN EveryCountIs(order.opportunity.max_quantity)
        ELSE IF order.quantity[1] >= 1
        THEN EveryCountIs(Min(order.quantity[1], order.opportunity.max_quantity))
        ELSE order.counts = <<>> /\ ~order.success

\* ---------------------------------------------------------- sync_positions
\* The most entries in the market_positions of a response.
MaxPositions == 2

\* The entries the venue reports, and its responses.
PositionEntries ==
    { [ticker |-> t, position |-> p] : t \in Tickers, p \in {Position(1, 1), Position(0 - 2, 2)} }
PositionResponses == UNION { [1..n -> PositionEntries] : n \in 0..MaxPositions }

\* The loop of sync_positions over the entries of the response, on the dict d.
RECURSIVE refill_positions(_, _)
refill_positions(d, entries) ==
    IF entries = <<>> THEN d
    ELSE refill_positions([d EXCEPT ![Head(entries).ticker] = Head(entries).position],
                          Tail(entries))

\* sync_positions clearing the dict before it asks the venue.
sync_positions_called_clearing(tr) ==
    [tr EXCEPT !.pc = "waiting", !.positions = [t \in Tickers |-> NoPosition]]

\* sync_positions up to its suspension: the request for the positions is
\* under way.
sync_positions_called(tr) ==
    [tr EXCEPT !.pc = "waiting"]

\* get_positions raises: sync_positions ends there, and _sync_loop logs the
\* error and goes back to sleep.
sync_positions_raises(tr) ==
    [tr EXCEPT !.pc = "idle", !.failed = TRUE]

\* get_positions returns: the dict is cleared and refilled from the
\* response, without suspending.
sync_positions_returns(tr, response) ==
    [tr EXCEPT !.pc = "idle", !.failed = FALSE,
               !.positions = refill_positions([t \in Tickers |-> NoPosition],
                                              response.market_positions),
               !.synced = <<response>>]

InitTracker ==
    /\ config = EngineConfig
    /\ cb = CircuitBreakerInit
    /\ now = 0
    /\ last = NoCall
    /\ allowed = 0
    /\ forced = FALSE
    /\ EngineIdle
    /\ ComponentsIdle

\* _sync_loop wakes and calls sync_positions.
SyncPositionsCalled ==
    /\ tracker.pc = "idle"
    /\ tracker' = sync_positions_called(tracker)
    /\ UNCHANGED otherThanTracker

SyncPositionsRaises ==
    /\ tracker.pc = "waiting"
    /\ tracker' = sync_positions_raises(tracker)
    /\ UNCHANGED otherThanTracker

SyncPositionsReturns ==
    /\ tracker.pc = "waiting"
    /\ \E entries \in PositionResponses :
           tracker' = sync_positions_returns(tracker, [market_positions |-> entries])
    /\ UNCHANGED otherThanTracker

\* The scan loop or the exposure gate reads the positions.
PositionsRead ==
    /\ tracker' = [tracker EXCEPT !.seen = <<tracker.positions>>]
    /\ UNCHANGED otherThanTracker

NextTracker ==
    \/ SyncPositionsCalled
    \/ SyncPositionsRaises
    \/ SyncPositionsReturns
    \/ PositionsRead

SpecTracker == InitTracker /\ [][NextTracker]_vars

\* ----------------------------------------------- claims on sync_positions
\* The complete position map of a response: for each ticker the last entry
\* the response holds for it, and no entry for a ticker it does not name.
CompleteMap(response) ==
    [t \in Tickers |->
        LET mine == {i \in DOMAIN response.market_positions :
                        response.market_positions[i].ticker = t}
        IN  IF mine = {} THEN NoPosition
            ELSE response.market_positions[CHOOSE i \in mine : \A j \in mine : j <= i].position]

\* The map of the last successful sync; the empty map before the first.
LastSyncedMap ==
    IF tracker.synced = <<>> THEN [t \in Tickers |-> NoPosition]
    ELSE CompleteMap(tracker.synced[1])

otherThanExecutions ==
    <<breakerVars, engineVars, executorVars, storeVars, streamVars, clientVars,
      shutdownVars, transportVars, gateVars, latestVars>>

\* The opportunity every call executes: two legs, quantity 1 each.
Executed == CHOOSE o \in Detected : o.type = MULTI_OUTCOME

InitExecutions ==
    /\ config = EngineConfig
    /\ cb = CircuitBreakerInit
    /\ now = 0
    /\ last = NoCall
    /\ allowed = 0
    /\ forced = FALSE
    /\ EngineIdle
    /\ ComponentsIdle

\* The call of c leaves `async with self._semaphore`: the slot is released
\* and the first waiter, if any, is woken with the slot in hand.
Leave(c, g, requests) ==
    LET w == woken_by_release(semaphore)
    IN  /\ semaphore' = semaphore_release(semaphore)
        /\ calls' = [x \in Callers |->
                        IF x = c THEN ExecuteCall("returned", g, <<>>, requests)
                        ELSE IF x = w THEN [calls[x] EXCEPT !.pc = "woken"]
                        ELSE calls[x]]

\* A task calls execute: it takes a free slot and goes on, or it queues.
Execute ==
    /\ \E c \in Callers :
        /\ calls[c].pc = "idle"
        /\ semaphore' = semaphore_acquire(semaphore, c)
        /\ calls' = [calls EXCEPT ![c].pc =
                        IF locked(semaphore) THEN "waiting" ELSE "validate"]
    /\ UNCHANGED otherThanExecutions

\* A woken waiter runs again: acquire() returns.
Proceed ==
    /\ \E c \in Callers :
        /\ calls[c].pc = "woken"
        /\ calls' = [calls EXCEPT ![c].pc = "validate"]
    /\ UNCHANGED semaphore
    /\ UNCHANGED otherThanExecutions

\* _execute_internal validates; a stale opportunity ends the call, a valid
\* one gets its order group from create_order_group.
CreateOrderGroup ==
    /\ \E c \in Callers, valid \in BOOLEAN :
        /\ calls[c].pc = "validate"
        /\ IF valid
           THEN /\ calls' = [calls EXCEPT ![c] =
                       ExecuteCall("created", OrderGroup(PENDING, <<>>, None), <<>>, <<>>)]
                /\ UNCHANGED semaphore
           ELSE Leave(c, NoGroup, <<>>)
    /\ UNCHANGED otherThanExecutions

\* submit_order_group starts: the group is SUBMITTING and the first leg's
\* request leaves.
SubmitOrderGroup ==
    /\ \E c \in Callers :
        /\ calls[c].pc = "created"
        /\ calls' = [calls EXCEPT ![c] =
                ExecuteCall("response",
                            OrderGroup(SUBMITTING, <<>>, None), <<>>,
                            <<order_request(Executed.legs[1], TRUE)>>)]
    /\ UNCHANGED semaphore
    /\ UNCHANGED otherThanExecutions

\* The venue answers the request of a leg that is not the last: the next
\* leg's request leaves.
OrderReturned ==
    /\ \E c \in Callers :
        LET g == calls[c].group
            n == Len(g.orders) + 1
        IN  /\ calls[c].pc = "response"
            /\ n < Len(Executed.legs)
            /\ \E st \in venue_statuses(calls[c].requests[n]) :
                calls' = [calls EXCEPT ![c] =
                    ExecuteCall("response",
                        OrderGroup(g.status, Append(g.orders, st), g.error), <<>>,
                        Append(calls[c].requests,
                               order_request(Executed.legs[n + 1], TRUE)))]
    /\ UNCHANGED semaphore
    /\ UNCHANGED otherThanExecutions

\* The venue answers the last leg's request: the group is classified and
\* the call returns.
LastOrderReturned ==
    /\ \E c \in Callers :
        LET g == calls[c].group
            n == Len(g.orders) + 1
        IN  /\ calls[c].pc = "response"
            /\ n = Len(Executed.legs)
            /\ \E st \in venue_statuses(calls[c].requests[n]) :
                Leave(c, classify(Append(g.orders, st), Len(Executed.legs)),
                      calls[c].requests)
    /\ UNCHANGED otherThanExecutions

\* submit_order raises for the current leg: the group is FAILED and its
\* RESTING orders are cancelled one by one; with none the call returns.
OrderRaised ==
    /\ \E c \in Callers :
        LET g == submission_failed(calls[c].group.orders)
            resting == resting_legs(calls[c].group.orders)
        IN  /\ calls[c].pc = "response"
            /\ IF resting = <<>>
               THEN Leave(c, g, calls[c].requests)
               ELSE /\ calls' = [calls EXCEPT ![c] =
                           ExecuteCall("cancel", g, resting, calls[c].requests)]
                    /\ UNCHANGED semaphore
    /\ UNCHANGED otherThanExecutions

\* cancel_order returns for the leg at the head of the cancel list.
OrderCancelReturns ==
    /\ \E c \in Callers, ok \in BOOLEAN :
        LET g == cancel_order(calls[c].group, Head(calls[c].todo), ok)
        IN  /\ calls[c].pc = "cancel"
            /\ IF Tail(calls[c].todo) = <<>>
               THEN Leave(c, g, calls[c].requests)
               ELSE /\ calls' = [calls EXCEPT ![c] =
                           ExecuteCall("cancel", g, Tail(calls[c].todo),
                                       calls[c].requests)]
                    /\ UNCHANGED semaphore
    /\ UNCHANGED otherThanExecutions

NextExecutions ==
    \/ Execute
    \/ Proceed
    \/ CreateOrderGroup
    \/ SubmitOrderGroup
    \/ OrderReturned
    \/ LastOrderReturned
    \/ OrderRaised
    \/ OrderCancelReturns

\* Whether a task ever calls execute is up to it; once inside, every await
\* of the call returns in the end (the venue answers or the request raises)
\* and a woken task is run by the event loop.
SpecExecutions ==
    /\ InitExecutions
    /\ [][NextExecutions]_vars
    /\ WF_vars(Proceed)
    /\ WF_vars(CreateOrderGroup)
    /\ WF_vars(SubmitOrderGroup)
    /\ WF_vars(OrderReturned)
    /\ WF_vars(LastOrderReturned \/ OrderRaised)
    /\ WF_vars(OrderCancelReturns)

\* The statuses a group ends in.
Closed == {COMPLETE, PARTIAL, FAILED, CANCELED}

\* The status changes the life cycle allows.
Lifecycle ==
    {<<None, PENDING>>, <<PENDING, SUBMITTING>>} \cup {<<SUBMITTING, st>> : st \in Closed}

\* C21: an order group's status changes only along PENDING -> SUBMITTING ->
\* one of {COMPLETE, PARTIAL, FAILED, CANCELED}; it is SUBMITTING while a
\* leg's request is out; once COMPLETE, PARTIAL, FAILED or CANCELED nothing
\* the order manager or the executor does later changes it.
C21_GroupLifecycle ==
    [][ \A c \in Callers :
          /\ calls'[c].group.status # calls[c].group.status =>
                <<calls[c].group.status, calls'[c].group.status>> \in Lifecycle
          /\ calls'[c].pc = "response" => calls'[c].group.status = SUBMITTING ]_vars

\* One group is FAILED with a cancelled order while another call is still
\* submitting its legs.
C21_Witness ==
    \E c, d \in Callers :
        /\ calls[c].pc = "returned"
        /\ calls[c].group.status = FAILED
        /\ \E i \in DOMAIN calls[c].group.orders : calls[c].group.orders[i] = CANCELED
        /\ calls[d].pc = "response"
        /\ calls[d].group.status = SUBMITTING

\* C22: every leg is sent as an immediate-or-cancel limit order at its
\* committed price, and once a group has been classified none of its leg
\* orders is left RESTING at the venue.
C22_NoOrderLeftResting ==
    \A c \in Callers :
        /\ \A i \in DOMAIN calls[c].requests :
              /\ calls[c].requests[i].type = "limit"
              /\ calls[c].requests[i].expiration_ts # None
              /\ calls[c].requests[i].price = Executed.legs[i].price
        /\ (calls[c].pc = "returned" /\ calls[c].group.status \in Closed) =>
              \A i \in DOMAIN calls[c].group.orders :
                  calls[c].group.orders[i] # RESTING

\* The calls that hold a slot of the semaphore: those inside
\* _execute_internal and those woken with a slot in hand.
Inside == {c \in Callers : calls[c].pc \in {"woken", "validate", "created", "response", "cancel"}}

\* C23: at most max_concurrent execute calls are inside validation or
\* submission at the same time; the others wait, and each waiting call
\* eventually proceeds.
C23_BoundedConcurrency ==
    /\ [](Cardinality(Inside) <= max_concurrent)
    /\ \A c \in Callers :
          (calls[c].pc = "waiting") ~> (calls[c].pc \in {"validate", "returned"})

\* Every slot is taken and a further call waits.
C23_Witness ==
    /\ Cardinality(Inside) = max_concurrent
    /\ \E c \in Callers : calls[c].pc = "waiting"
    /\ semaphore.waiters # <<>>

====
